---- MODULE Spec2Model ----
(***************************************************************************)
(* Gossip verification of attestations in the beacon chain                 *)
(* (beacon_node/beacon_chain/src/attestation_verification.rs).             *)
(*                                                                         *)
(* Every verify call is one worker thread.  A call is cut into steps at    *)
(* the points where it takes a lock of a shared cache, so that concurrent  *)
(* calls interleave exactly where the threads of the node can.             *)
(***************************************************************************)
EXTENDS Integers, Sequences, FiniteSets, Bags, TLC

VARIABLES
    pc,                    \* per call: the stage the call is at
    msg,                   \* per call: the message being verified
    indexed,               \* per call: the indexed attestation, once derived
    attester_index,        \* per call: the index verify_middle_checks returned
    per_slot,              \* per call: committees_per_slot of the resolved committee cache
    sig_verified,          \* per call: signature verification returned success
    slash_info,            \* per call: the AttestationSlashInfo of a failed verify_slashable
    result,                \* per call: what verify returned
    observed_attestations, \* chain.observed_attestations (bag of attestation roots)
    observed_aggregators,  \* chain.observed_aggregators (bag of <<epoch, index>>)
    observed_attesters,    \* chain.observed_attesters (bag of <<epoch, index>>)
    shuffling_cache,       \* chain.shuffling_cache: <<epoch, root>> -> committee cache
    slasher,               \* chain.slasher: is a slasher attached
    beacon_chain,          \* chain.slot_clock and chain.config as the calls read them
    slasher_accepted,      \* per call: what the call handed to slasher.accept_attestation
    wrote,                 \* per call: the observation-cache inserts the call made
    started_after,         \* per call: the calls that had returned when it started
    held,                  \* per call: the locks the call holds, in the order it took them
    node_holds,            \* the locks another thread of the node holds for writing
    local_state,           \* per call: `state` of map_attestation_committee's miss path
    initialized_validators, \* validator client: the definitions of InitializedValidators
    hd_pc,                 \* per hd request: where the handler of POST validators/hd is
    body,                  \* per hd request: the HdValidatorsPostRequest
    mnemonic,              \* per hd request: the mnemonic the wallet is built from
    wallet,                \* per hd request: nextaccount of the wallet
    validators,            \* per hd request: the ValidatorData pushed so far
    response               \* per hd request: what the handler answered

vars == <<pc, msg, indexed, attester_index, per_slot, sig_verified, slash_info, result,
          observed_attestations, observed_aggregators, observed_attesters,
          shuffling_cache, slasher, beacon_chain, slasher_accepted, wrote,
          started_after, held, node_holds, local_state,
          initialized_validators, hd_pc, body, mnemonic, wallet, validators, response>>

-----------------------------------------------------------------------------
(* Bounds *)

\* Number of verify calls (worker threads) of a run.
NumCalls == 2

Calls == 1..NumCalls

-----------------------------------------------------------------------------
(* The chain the calls run against: clock, fork choice, store, pubkeys.    *)

\* T::EthSpec::slots_per_epoch()
SlotsPerEpoch == 2

\* chain.spec.target_aggregators_per_committee
TargetAggregatorsPerCommittee == 1

\* chain.spec.attestation_subnet_count
AttestationSubnetCount == 64

\* Highest validator index the observed-attesters caches accept.
ValidatorRegistryLimit == 8

None == <<"None">>

Some(x) == <<"Some", x>>

\* chain.slot_clock with MAXIMUM_GOSSIP_CLOCK_DISPARITY applied.
now_with_future_tolerance == Some(3)

now_with_past_tolerance == Some(3)

\* chain.fork_choice: block root -> block
fork_choice ==
    [r \in {"A", "B", "C", "D"} |->
        CASE r = "A" -> [slot |-> 2, state_root |-> "sA"]
          [] r = "B" -> [slot |-> 3, state_root |-> "sB"]
          [] r = "C" -> [slot |-> 5, state_root |-> "sC"]
          [] r = "D" -> [slot |-> 6, state_root |-> "sD"]]

get_block(root) ==
    IF root \in DOMAIN fork_choice THEN Some(fork_choice[root]) ELSE None

\* chain.config.import_max_skip_slots
import_max_skip_slots == None

\* chain.validator_pubkey_cache.len()
pubkey_cache_len == 3

\* The clock and configuration of the chain the concurrent calls run against.
DefaultChain ==
    [now_with_future_tolerance |-> now_with_future_tolerance,
     now_with_past_tolerance |-> now_with_past_tolerance,
     import_max_skip_slots |-> import_max_skip_slots,
     pubkey_cache_len |-> pubkey_cache_len]

Epoch(slot) == slot \div SlotsPerEpoch

\* The shuffling of an epoch: one committee per slot.
Shuffling ==
    [s \in 0..8 |->
        CASE s = 0 -> <<0, 1>>
          [] s = 1 -> <<1, 2>>
          [] s = 2 -> <<2, 0>>
          [] s = 3 -> <<1, 2>>
          [] s = 4 -> <<0, 2>>
          [] s = 5 -> <<1, 0>>
          [] s = 6 -> <<0, 1>>
          [] s = 7 -> <<1, 2>>
          [] s = 8 -> <<2, 0>>]

\* state.committee_cache(relative_epoch) of the state at `epoch`.
CommitteeCacheOf(epoch) ==
    [epoch |-> epoch, committees_per_slot |-> 1]

committees_per_slot(cache) == cache.committees_per_slot

\* committee_cache.get_beacon_committee(slot, index)
get_beacon_committee(cache, slot, index) ==
    IF Epoch(slot) = cache.epoch /\ index < cache.committees_per_slot
    THEN Some(Shuffling[slot])
    ELSE None

-----------------------------------------------------------------------------
(* Messages *)

T == TRUE

F == FALSE

\* An Attestation.  `signature` is the set of validators whose keys produced
\* the aggregate signature over `data`.
Att(slot, index, head, tepoch, troot, bits, signers) ==
    [data |-> [slot |-> slot, index |-> index, beacon_block_root |-> head,
               target |-> [epoch |-> tepoch, root |-> troot]],
     aggregation_bits |-> bits,
     signature |-> signers]

\* A SignedAggregateAndProof.  `selection_proof.hash` is the hash of the proof
\* signature, `signature` says whether the envelope signature is the
\* aggregator's.
Agg(aggregator, att, proof_hash, proof_ok, envelope_ok) ==
    [kind |-> "aggregate",
     aggregator_index |-> aggregator,
     aggregate |-> att,
     selection_proof |-> [hash |-> proof_hash, valid |-> proof_ok],
     signature |-> envelope_ok,
     subnet_id |-> 0]

\* An unaggregated Attestation as it arrives on a subnet.
Unagg(att, subnet) ==
    [kind |-> "unaggregated",
     aggregator_index |-> 0,
     aggregate |-> att,
     selection_proof |-> [hash |-> 0, valid |-> T],
     signature |-> T,
     subnet_id |-> subnet]

X1 == Att(2, 0, "A", 1, "A", <<T, T>>, {0, 2})

X2 == Att(2, 0, "A", 1, "A", <<T, F>>, {2})

X3 == Att(3, 0, "B", 1, "A", <<F, T>>, {2})

X4 == Att(2, 0, "A", 1, "A", <<F, T>>, {0})

AggregateMessages ==
    { Agg(0, X1, 0, T, T),                                   \* valid
      Agg(0, X2, 0, T, T),                                   \* valid, same aggregator
      Agg(2, X1, 0, T, T),                                   \* valid, same attestation
      Agg(0, X1, 0, T, F),                                   \* envelope signature invalid
      Agg(2, Att(2, 0, "Z", 1, "A", <<T, T>>, {0, 2}), 0, T, T), \* head unknown
      Agg(0, X2, 1, T, T) }                                  \* selection proof does not elect

UnaggregatedMessages ==
    { Unagg(X2, 0),                                          \* valid, validator 2
      Unagg(X3, 1),                                          \* valid, validator 2, other data
      Unagg(X4, 0),                                          \* valid, validator 0
      Unagg(Att(2, 0, "A", 1, "A", <<T, F>>, {}), 0),        \* signature invalid
      Unagg(X2, 1),                                          \* wrong subnet
      Unagg(X1, 0) }                                         \* two bits set

Messages == AggregateMessages \cup UnaggregatedMessages

NoMsg == Unagg(Att(0, 0, "", 0, "", <<>>, {}), 0)

\* attestation.tree_hash_root(): the hash commits to every field.
tree_hash_root(att) == <<"root", att.data, att.aggregation_bits, att.signature>>

\* aggregation_bits.num_set_bits()
num_set_bits(bits) == Cardinality({i \in DOMAIN bits : bits[i]})

\* aggregation_bits.is_zero()
is_zero(bits) == num_set_bits(bits) = 0

-----------------------------------------------------------------------------
(* Results and errors: <<name, fields...>> *)

Ok(x) == <<"Ok", x>>

Err(e) == <<"Err", e>>

IsOk(r) == r[1] = "Ok"

IsErr(r) == r[1] = "Err"

BeaconChainError(e) == <<"BeaconChainError", e>>

NoResult == <<"NoResult">>

-----------------------------------------------------------------------------
(* Checks that read only the clock and fork choice *)

\* Faulty variant of the subtraction of slots: it wraps around in 16 bits.
SaturatingSub_Wrapping(a, b) == (a - b) % 65536

\* Slot - u64: the subtraction of slots, which stops at zero.
SaturatingSub(a, b) == IF a > b THEN a - b ELSE 0

\* Faulty variant of verify_propagation_slot_range: the latest permissible
\* slot itself is already refused.
verify_propagation_slot_range_off_by_one(chain, att) ==
    LET attestation_slot == att.data.slot IN
    IF chain.now_with_future_tolerance = None
    THEN Err(BeaconChainError("UnableToReadSlot"))
    ELSE LET latest_permissible_slot == chain.now_with_future_tolerance[2] IN
         IF attestation_slot >= latest_permissible_slot
         THEN Err(<<"FutureSlot", attestation_slot, latest_permissible_slot>>)
         ELSE IF chain.now_with_past_tolerance = None
         THEN Err(BeaconChainError("UnableToReadSlot"))
         ELSE LET earliest_permissible_slot ==
                      SaturatingSub(chain.now_with_past_tolerance[2], SlotsPerEpoch) IN
              IF attestation_slot < earliest_permissible_slot
              THEN Err(<<"PastSlot", attestation_slot, earliest_permissible_slot>>)
              ELSE Ok(<<>>)

\* Faulty variant of verify_propagation_slot_range: a reading that fails
\* counts as slot 0.
verify_propagation_slot_range_defaulting(chain, att) ==
    LET attestation_slot == att.data.slot
        latest_permissible_slot ==
            IF chain.now_with_future_tolerance = None THEN 0
            ELSE chain.now_with_future_tolerance[2]
        now_past ==
            IF chain.now_with_past_tolerance = None THEN 0
            ELSE chain.now_with_past_tolerance[2]
        earliest_permissible_slot == SaturatingSub(now_past, SlotsPerEpoch)
    IN  IF attestation_slot > latest_permissible_slot
        THEN Err(<<"FutureSlot", attestation_slot, latest_permissible_slot>>)
        ELSE IF attestation_slot < earliest_permissible_slot
        THEN Err(<<"PastSlot", attestation_slot, earliest_permissible_slot>>)
        ELSE Ok(<<>>)

verify_propagation_slot_range(chain, att) ==
    LET attestation_slot == att.data.slot IN
    IF chain.now_with_future_tolerance = None
    THEN Err(BeaconChainError("UnableToReadSlot"))
    ELSE LET latest_permissible_slot == chain.now_with_future_tolerance[2] IN
         IF attestation_slot > latest_permissible_slot
         THEN Err(<<"FutureSlot", attestation_slot, latest_permissible_slot>>)
         ELSE IF chain.now_with_past_tolerance = None
         THEN Err(BeaconChainError("UnableToReadSlot"))
         ELSE LET earliest_permissible_slot ==
                      SaturatingSub(chain.now_with_past_tolerance[2], SlotsPerEpoch) IN
              IF attestation_slot < earliest_permissible_slot
              THEN Err(<<"PastSlot", attestation_slot, earliest_permissible_slot>>)
              ELSE Ok(<<>>)

\* Faulty variant of verify_head_block_is_known: a block that fork choice does
\* not hold is let through.
verify_head_block_is_known_accepting_unknown(att, max_skip_slots) ==
    LET found == get_block(att.data.beacon_block_root) IN
    IF found # None
    THEN LET block == found[2] IN
         IF max_skip_slots # None /\ att.data.slot > block.slot + max_skip_slots[2]
         THEN Err(<<"TooManySkippedSlots", block.slot, att.data.slot>>)
         ELSE Ok(<<>>)
    ELSE Ok(<<>>)

\* Faulty variant of verify_head_block_is_known: the skip limit itself is
\* already refused.
verify_head_block_is_known_off_by_one(att, max_skip_slots) ==
    LET found == get_block(att.data.beacon_block_root) IN
    IF found # None
    THEN LET block == found[2] IN
         IF max_skip_slots # None /\ att.data.slot >= block.slot + max_skip_slots[2]
         THEN Err(<<"TooManySkippedSlots", block.slot, att.data.slot>>)
         ELSE Ok(<<>>)
    ELSE Err(<<"UnknownHeadBlock", att.data.beacon_block_root>>)

verify_head_block_is_known(att, max_skip_slots) ==
    LET found == get_block(att.data.beacon_block_root) IN
    IF found # None
    THEN LET block == found[2] IN
         IF max_skip_slots # None /\ att.data.slot > block.slot + max_skip_slots[2]
         THEN Err(<<"TooManySkippedSlots", block.slot, att.data.slot>>)
         ELSE Ok(<<>>)
    ELSE Err(<<"UnknownHeadBlock", att.data.beacon_block_root>>)

-----------------------------------------------------------------------------
(* Committees and indexed attestations *)

RECURSIVE SortedSeq(_)
\* The elements of a set of integers, ascending.
SortedSeq(S) ==
    IF S = {} THEN <<>>
    ELSE LET least == CHOOSE x \in S : \A y \in S : x <= y IN
         <<least>> \o SortedSeq(S \ {least})

\* state_processing::common::get_indexed_attestation
get_indexed_attestation(committee, att) ==
    IF Len(att.aggregation_bits) # Len(committee)
    THEN Err(BeaconChainError("InvalidBitfield"))
    ELSE Ok([attesting_indices |->
                 SortedSeq({committee[i] : i \in {j \in DOMAIN committee :
                                                    att.aggregation_bits[j]}}),
             data |-> att.data,
             signature |-> att.signature])

NoIndexed == [attesting_indices |-> <<>>, data |-> NoMsg.aggregate.data, signature |-> {}]

\* SelectionProof::is_aggregator
is_aggregator(selection_proof, committee_len) ==
    LET quotient == committee_len \div TargetAggregatorsPerCommittee
        modulo == IF quotient > 1 THEN quotient ELSE 1
    IN  selection_proof.hash % modulo = 0

\* SubnetId::compute_subnet_for_attestation_data
compute_subnet_for_attestation_data(data, cps) ==
    (cps * (data.slot % SlotsPerEpoch) + data.index) % AttestationSubnetCount

\* chain.store: state root -> the state of that block.  `sound` is whether
\* per_slot_processing can advance the state.
store ==
    [sr \in {"sA", "sB", "sC", "sD"} |->
        CASE sr = "sA" -> [slot |-> 2, sound |-> TRUE]
          [] sr = "sB" -> [slot |-> 3, sound |-> TRUE]
          [] sr = "sC" -> [slot |-> 5, sound |-> FALSE]
          [] sr = "sD" -> [slot |-> 6, sound |-> TRUE]]

\* The local `state` before the store was read.
NoState == [slot |-> 0, sound |-> FALSE]

get_inconsistent_state_for_attestation_verification_only(state_root) ==
    IF state_root \in DOMAIN store THEN Some(store[state_root]) ELSE None

\* state.current_epoch() + 1 < attestation_epoch
NeedsSkip(state, attestation_epoch) == Epoch(state.slot) + 1 < attestation_epoch

\* per_slot_processing(&mut state, Some(Hash256::zero()), &chain.spec)
per_slot_processing(state) ==
    IF state.sound
    THEN Ok([state EXCEPT !.slot = @ + 1])
    ELSE Err(BeaconChainError("SlotProcessingError"))

RECURSIVE FastForward(_, _)
\* while state.current_epoch() + 1 < attestation_epoch { per_slot_processing? }
FastForward(state, attestation_epoch) ==
    IF NeedsSkip(state, attestation_epoch)
    THEN LET next == per_slot_processing(state) IN
         IF IsErr(next) THEN next ELSE FastForward(next[2], attestation_epoch)
    ELSE Ok(state)

\* RelativeEpoch::from_epoch(base, other)
RelativeEpoch_from_epoch(base, other) ==
    IF other = base THEN Ok("Current")
    ELSE IF other + 1 = base THEN Ok("Previous")
    ELSE Err(BeaconChainError("IncorrectStateForAttestation"))

ShufflingKey(att) == <<Epoch(att.data.slot), att.data.target.root>>

\* Faulty variant of the cache lookup: an entry of the cache is not found.
ShufflingLookup_AlwaysMissing(att, cache) ==
    LET target_block == get_block(att.data.target.root) IN
    IF target_block = None
    THEN Err(<<"UnknownTargetRoot", att.data.target.root>>)
    ELSE <<"Miss", target_block[2]>>

\* map_attestation_committee up to the cache lookup:
\* Err(e), <<"Hit", committee cache>> or <<"Miss", target block>>.
ShufflingLookup(att, cache) ==
    LET target_block == get_block(att.data.target.root) IN
    IF target_block = None
    THEN Err(<<"UnknownTargetRoot", att.data.target.root>>)
    ELSE IF ShufflingKey(att) \in DOMAIN cache
    THEN <<"Hit", cache[ShufflingKey(att)]>>
    ELSE <<"Miss", target_block[2]>>

\* The miss path after the fast-forward loop, up to the insert:
\* RelativeEpoch::from_epoch, build_committee_cache, committee_cache.
CommitteeCacheFromState(skipped, att) ==
    LET relative_epoch == RelativeEpoch_from_epoch(Epoch(skipped.slot),
                                                   Epoch(att.data.slot))
    IN  IF IsErr(relative_epoch)
        THEN relative_epoch
        ELSE Ok(CommitteeCacheOf(Epoch(att.data.slot)))

\* The miss path up to the insert: Ok(committee cache) or Err(e).
BuildCommitteeCache(att, target_block) ==
    LET loaded == get_inconsistent_state_for_attestation_verification_only(
                      target_block.state_root) IN
    IF loaded = None
    THEN Err(BeaconChainError("MissingBeaconState"))
    ELSE LET skipped == FastForward(loaded[2], Epoch(att.data.slot)) IN
         IF IsErr(skipped) THEN skipped
         ELSE CommitteeCacheFromState(skipped[2], att)

\* ShufflingCache::insert
ShufflingInsert(cache, key, committee_cache) ==
    IF key \in DOMAIN cache
    THEN cache
    ELSE [k \in DOMAIN cache \cup {key} |->
             IF k = key THEN committee_cache ELSE cache[k]]

\* Faulty variant of the map_fn for aggregates: the selection proof is not
\* asked whether it elects the aggregator.
AggregateMapFn_WithoutSelectionCheck(m, committee, cps) ==
    IF ~(\E i \in DOMAIN committee : committee[i] = m.aggregator_index)
    THEN Err(<<"AggregatorNotInCommittee", m.aggregator_index>>)
    ELSE get_indexed_attestation(committee, m.aggregate)

\* The map_fn of verify_slashable for aggregates.
AggregateMapFn(m, committee, cps) ==
    IF ~is_aggregator(m.selection_proof, Len(committee))
    THEN Err(<<"InvalidSelectionProof", m.aggregator_index>>)
    ELSE IF ~(\E i \in DOMAIN committee : committee[i] = m.aggregator_index)
    THEN Err(<<"AggregatorNotInCommittee", m.aggregator_index>>)
    ELSE get_indexed_attestation(committee, m.aggregate)

\* Faulty variant of the map_fn: the attesting indices are left in the order
\* of the committee and the bits are not looked at.
ObtainMapFn_WholeCommittee(att, committee, cps) ==
    Ok(<<[attesting_indices |-> committee, data |-> att.data,
          signature |-> att.signature], cps>>)

\* The map_fn of obtain_indexed_attestation_and_committees_per_slot.
ObtainMapFn(att, committee, cps) ==
    LET r == get_indexed_attestation(committee, att) IN
    IF IsOk(r) THEN Ok(<<r[2], cps>>) ELSE r

\* The tail of both paths: extract the committee from the committee cache,
\* Ok(<<committee, committees_per_slot>>) or NoCommitteeForSlotAndIndex.
WithCommittee(committee_cache, att) ==
    LET committee == get_beacon_committee(committee_cache,
                                          att.data.slot, att.data.index) IN
    IF committee = None
    THEN Err(<<"NoCommitteeForSlotAndIndex", att.data.slot, att.data.index>>)
    ELSE Ok(<<committee[2], committees_per_slot(committee_cache)>>)

\* The tail with the map_fn of verify_slashable for aggregates.
AggregateWithCommittee(committee_cache, m) ==
    LET found == WithCommittee(committee_cache, m.aggregate) IN
    IF IsErr(found) THEN found
    ELSE AggregateMapFn(m, found[2][1], found[2][2])

\* The tail with the map_fn of obtain_indexed_attestation_and_committees_per_slot.
ObtainWithCommittee(committee_cache, att) ==
    LET found == WithCommittee(committee_cache, att) IN
    IF IsErr(found) THEN found
    ELSE ObtainMapFn(att, found[2][1], found[2][2])

-----------------------------------------------------------------------------
(* Signatures *)

\* indexed_attestation_signature_set_from_pubkeys and its verification:
\* "Err" when a public key is missing, else whether the signature verifies.
AttestationSignatureSet(chain, ia) ==
    IF \E i \in DOMAIN ia.attesting_indices :
           ia.attesting_indices[i] >= chain.pubkey_cache_len
    THEN Err(BeaconChainError("SignatureSetError"))
    ELSE Ok(ia.signature = {ia.attesting_indices[i] : i \in DOMAIN ia.attesting_indices}
            /\ ia.signature # {})

verify_attestation_signature(chain, ia) ==
    LET set == AttestationSignatureSet(chain, ia) IN
    IF IsErr(set) THEN set
    ELSE IF set[2] THEN Ok(<<>>) ELSE Err(<<"InvalidSignature">>)

verify_signed_aggregate_signatures(chain, m, ia) ==
    IF m.aggregator_index >= chain.pubkey_cache_len
    THEN Err(<<"AggregatorPubkeyUnknown", m.aggregator_index>>)
    ELSE LET set == AttestationSignatureSet(chain, ia) IN
         IF IsErr(set) THEN set
         ELSE Ok(m.selection_proof.valid /\ m.signature /\ set[2])

-----------------------------------------------------------------------------
(* Observation caches *)

BagHas(bag, e) == BagIn(e, bag)

BagAdd(bag, e) == bag (+) SetToBag({e})

\* ObservedAttestations::is_known
is_known(cache, root) == BagHas(cache, root)

\* ObservedAttestations::observe_attestation: <<outcome, cache afterwards>>
observe_attestation(cache, root) ==
    IF BagHas(cache, root)
    THEN <<"AlreadyKnown", cache>>
    ELSE <<"New", BagAdd(cache, root)>>

\* ObservedAttesters::validator_has_been_observed
validator_has_been_observed(cache, att, validator_index) ==
    IF validator_index > ValidatorRegistryLimit
    THEN Err(<<"ValidatorIndexTooHigh", validator_index>>)
    ELSE Ok(BagHas(cache, <<att.data.target.epoch, validator_index>>))

\* ObservedAttesters::observe_validator: <<result, cache afterwards>>
observe_validator(cache, att, validator_index) ==
    IF validator_index > ValidatorRegistryLimit
    THEN <<Err(<<"ValidatorIndexTooHigh", validator_index>>), cache>>
    ELSE IF BagHas(cache, <<att.data.target.epoch, validator_index>>)
    THEN <<Ok(TRUE), cache>>
    ELSE <<Ok(FALSE), BagAdd(cache, <<att.data.target.epoch, validator_index>>)>>

-----------------------------------------------------------------------------
(* AttestationSlashInfo *)

SignatureNotChecked(att, e) == <<"SignatureNotChecked", att, e>>

SignatureNotCheckedIndexed(ia, e) == <<"SignatureNotCheckedIndexed", ia, e>>

SignatureInvalid(e) == <<"SignatureInvalid", e, e>>

\* Faulty variant: the late failure is reported as a failure before the
\* signature check.
SignatureValid_AsNotChecked(ia, e) == <<"SignatureNotCheckedIndexed", ia, e>>

SignatureValid(ia, e) == <<"SignatureValid", ia, e>>

NoSlashInfo == <<"NoSlashInfo">>

\* The error a slash info carries.
SlashError(si) == si[3]

-----------------------------------------------------------------------------
(* The state after construction *)

\* The validator client: the requests to POST lighthouse/validators/hd, each
\* served by a blocking task of its own.
NumRequests == 2

Requests == 1 .. NumRequests

NoBody == <<"NoBody">>

NoMnemonic == <<"NoMnemonic">>

NoResponse == <<"NoResponse">>

\* The validator client has no definitions and serves no request.
ValidatorClientInit ==
    /\ initialized_validators = <<>>
    /\ hd_pc = [r \in Requests |-> "idle"]
    /\ body = [r \in Requests |-> NoBody]
    /\ mnemonic = [r \in Requests |-> NoMnemonic]
    /\ wallet = [r \in Requests |-> 0]
    /\ validators = [r \in Requests |-> <<>>]
    /\ response = [r \in Requests |-> NoResponse]

Init ==
    /\ pc = [t \in Calls |-> "idle"]
    /\ msg = [t \in Calls |-> NoMsg]
    /\ indexed = [t \in Calls |-> NoIndexed]
    /\ per_slot = [t \in Calls |-> 0]
    /\ attester_index = [t \in Calls |-> 0]
    /\ sig_verified = [t \in Calls |-> FALSE]
    /\ slash_info = [t \in Calls |-> NoSlashInfo]
    /\ result = [t \in Calls |-> NoResult]
    /\ observed_attestations = EmptyBag
    /\ observed_aggregators = EmptyBag
    /\ observed_attesters = EmptyBag
    /\ shuffling_cache = <<>>
    /\ slasher \in BOOLEAN
    /\ beacon_chain = DefaultChain
    /\ slasher_accepted = [t \in Calls |-> <<>>]
    /\ wrote = [t \in Calls |-> {}]
    /\ started_after = [t \in Calls |-> {}]
    /\ held = [t \in Calls |-> <<>>]
    /\ node_holds = {}
    /\ local_state = [t \in Calls |-> NoState]
    /\ ValidatorClientInit

caches == <<observed_attestations, observed_aggregators, observed_attesters>>

\* The validator client and the requests its HTTP API is serving.
validator_client == <<initialized_validators, hd_pc, body, mnemonic, wallet, validators,
                      response>>

\* What no verify call changes: the slasher handle, the clock, the config,
\* and the validator client, which is another process.
environment == <<slasher, beacon_chain, validator_client>>

\* What changes only where a call is followed lock by lock: the locks held
\* and the state the miss path of map_attestation_committee works on.
lock_level == <<held, node_holds, local_state>>

locals == <<indexed, per_slot, attester_index, sig_verified>>

history == <<wrote, started_after>>

\* The call moves on to `stage`.
Goto(t, stage) == pc' = [pc EXCEPT ![t] = stage]

\* verify_slashable returns Err(si): verify maps it through process_slash_info.
Fail(t, si) ==
    /\ Goto(t, "slash")
    /\ slash_info' = [slash_info EXCEPT ![t] = si]

\* verify returns r.
Return(t, r) ==
    /\ Goto(t, "done")
    /\ result' = [result EXCEPT ![t] = r]

\* The wrapper verify_slashable returns.
Verified(m, ia) == [message |-> m, indexed_attestation |-> ia]

\* The entries a step added to an observation cache.
Added(name, old, new) ==
    {<<name, e>> : e \in {x \in BagToSet(new) : CopiesIn(x, new) > CopiesIn(x, old)}}

\* VerifiedAggregatedAttestation::verify / VerifiedUnaggregatedAttestation::verify
\* is entered with message m.  Calls are numbered in their order of entry.
verify(t, m) ==
    /\ pc[t] = "idle"
    /\ \A c \in Calls : c < t => pc[c] # "idle"
    /\ msg' = [msg EXCEPT ![t] = m]
    /\ Goto(t, IF m.kind = "aggregate" THEN "agg_early" ELSE "unagg_early")
    /\ started_after' = [started_after EXCEPT ![t] = {c \in Calls : pc[c] = "done"}]
    /\ UNCHANGED <<locals, slash_info, result, caches, shuffling_cache, environment, lock_level,
                   slasher_accepted, wrote>>

-----------------------------------------------------------------------------
(* VerifiedAggregatedAttestation *)

\* verify_early_checks up to the observed_attestations query.
AggEarlyChecksAttestation(m, attestations, chain) ==
    LET attestation == m.aggregate
        range == verify_propagation_slot_range(chain, attestation)
        attestation_root == tree_hash_root(attestation)
    IN  IF IsErr(range) THEN range
        ELSE IF is_known(attestations, attestation_root)
        THEN Err(<<"AttestationAlreadyKnown", attestation_root>>)
        ELSE Ok(attestation_root)

agg_verify_early_checks_attestation(t) ==
    /\ pc[t] = "agg_early"
    /\ LET r == AggEarlyChecksAttestation(msg[t], observed_attestations, beacon_chain) IN
       IF IsErr(r)
       THEN Fail(t, SignatureNotChecked(msg[t].aggregate, r[2]))
       ELSE Goto(t, "agg_early_aggregator") /\ UNCHANGED slash_info
    /\ UNCHANGED <<msg, locals, result, caches, shuffling_cache, environment, lock_level,
                   slasher_accepted, history>>

\* Faulty variant of verify_early_checks: observed_aggregators is not asked.
AggEarlyChecksAggregator_WithoutQuery(m, aggregators) ==
    LET attestation == m.aggregate
        head == verify_head_block_is_known(attestation, None)
    IN  IF IsErr(head) THEN head
        ELSE IF is_zero(attestation.aggregation_bits)
        THEN Err(<<"EmptyAggregationBitfield">>)
        ELSE Ok(tree_hash_root(attestation))

\* verify_early_checks from the observed_aggregators query on.
\* Faulty variant: the bits are tested before the head block.
AggEarlyChecksAggregator_BitsBeforeHead(m, aggregators) ==
    LET attestation == m.aggregate
        aggregator_index == m.aggregator_index
        seen == validator_has_been_observed(aggregators, attestation, aggregator_index)
        head == verify_head_block_is_known(attestation, None)
    IN  IF IsErr(seen) THEN seen
        ELSE IF seen[2] THEN Err(<<"AggregatorAlreadyKnown", aggregator_index>>)
        ELSE IF is_zero(attestation.aggregation_bits)
        THEN Err(<<"EmptyAggregationBitfield">>)
        ELSE IF IsErr(head) THEN head
        ELSE Ok(tree_hash_root(attestation))

AggEarlyChecksAggregator(m, aggregators) ==
    LET attestation == m.aggregate
        aggregator_index == m.aggregator_index
        seen == validator_has_been_observed(aggregators, attestation, aggregator_index)
        head == verify_head_block_is_known(attestation, None)
    IN  IF IsErr(seen) THEN seen
        ELSE IF seen[2] THEN Err(<<"AggregatorAlreadyKnown", aggregator_index>>)
        ELSE IF IsErr(head) THEN head
        ELSE IF is_zero(attestation.aggregation_bits)
        THEN Err(<<"EmptyAggregationBitfield">>)
        ELSE Ok(tree_hash_root(attestation))

\* Faulty variant of verify_early_checks: the aggregator is observed, not
\* only looked up.
agg_verify_early_checks_aggregator_observing(t) ==
    /\ pc[t] = "agg_early_aggregator"
    /\ LET r == AggEarlyChecksAggregator(msg[t], observed_aggregators)
           outcome == observe_validator(observed_aggregators, msg[t].aggregate,
                                        msg[t].aggregator_index)
       IN  /\ observed_aggregators' = outcome[2]
           /\ wrote' = [wrote EXCEPT ![t] =
                  @ \cup Added("observed_aggregators", observed_aggregators, outcome[2])]
           /\ IF IsErr(r)
              THEN Fail(t, SignatureNotChecked(msg[t].aggregate, r[2]))
              ELSE Goto(t, "agg_committee") /\ UNCHANGED slash_info
    /\ UNCHANGED <<msg, locals, result, observed_attestations, observed_attesters,
                   shuffling_cache, environment, lock_level, slasher_accepted, started_after>>

agg_verify_early_checks_aggregator(t) ==
    /\ pc[t] = "agg_early_aggregator"
    /\ LET r == AggEarlyChecksAggregator(msg[t], observed_aggregators) IN
       IF IsErr(r)
       THEN Fail(t, SignatureNotChecked(msg[t].aggregate, r[2]))
       ELSE Goto(t, "agg_committee") /\ UNCHANGED slash_info
    /\ UNCHANGED <<msg, locals, result, caches, shuffling_cache, environment, lock_level,
                   slasher_accepted, history>>

\* verify_slashable after map_attestation_committee returned r.
AggAfterCommittee(t, r) ==
    IF IsErr(r)
    THEN Fail(t, SignatureNotChecked(msg[t].aggregate, r[2])) /\ UNCHANGED indexed
    ELSE /\ indexed' = [indexed EXCEPT ![t] = r[2]]
         /\ Goto(t, "agg_signature")
         /\ UNCHANGED slash_info

\* map_attestation_committee: target lookup, cache lookup and the hit path.
agg_map_attestation_committee(t) ==
    /\ pc[t] = "agg_committee"
    /\ LET m == msg[t]
           found == ShufflingLookup(m.aggregate, shuffling_cache)
       IN  CASE IsErr(found) -> AggAfterCommittee(t, found)
             [] found[1] = "Hit" ->
                    AggAfterCommittee(t, AggregateWithCommittee(found[2], m))
             [] found[1] = "Miss" ->
                    Goto(t, "agg_committee_miss") /\ UNCHANGED <<indexed, slash_info>>
    /\ UNCHANGED <<msg, per_slot, attester_index, sig_verified, result, caches, shuffling_cache, environment, lock_level,
                   slasher_accepted, history>>

\* map_attestation_committee: the miss path, from the state read on.
agg_map_attestation_committee_miss(t) ==
    /\ pc[t] = "agg_committee_miss"
    /\ LET m == msg[t]
           target_block == get_block(m.aggregate.data.target.root)[2]
           cache == BuildCommitteeCache(m.aggregate, target_block)
       IN  IF IsErr(cache)
           THEN AggAfterCommittee(t, cache) /\ UNCHANGED shuffling_cache
           ELSE /\ shuffling_cache' =
                       ShufflingInsert(shuffling_cache, ShufflingKey(m.aggregate), cache[2])
                /\ AggAfterCommittee(t, AggregateWithCommittee(cache[2], m))
    /\ UNCHANGED <<msg, per_slot, attester_index, sig_verified, result, caches, environment, lock_level,
                   slasher_accepted, history>>

\* The signature stage of verify_slashable: Ok(<<>>) or the error.
AggSignatureStage(chain, m, ia) ==
    LET r == verify_signed_aggregate_signatures(chain, m, ia) IN
    IF IsErr(r) THEN r
    ELSE IF ~r[2] THEN Err(<<"InvalidSignature">>)
    ELSE Ok(<<>>)

\* Faulty variant of the signature stage: the attestation is observed before
\* its signatures are verified.
agg_verify_signatures_after_observing(t) ==
    /\ pc[t] = "agg_signature"
    /\ LET r == AggSignatureStage(beacon_chain, msg[t], indexed[t])
           outcome == observe_attestation(observed_attestations,
                                          tree_hash_root(msg[t].aggregate))
       IN  /\ observed_attestations' = outcome[2]
           /\ wrote' = [wrote EXCEPT ![t] =
                  @ \cup Added("observed_attestations", observed_attestations, outcome[2])]
           /\ IF IsErr(r)
              THEN Fail(t, SignatureInvalid(r[2])) /\ UNCHANGED sig_verified
              ELSE /\ sig_verified' = [sig_verified EXCEPT ![t] = TRUE]
                   /\ Goto(t, "agg_late_aggregator")
                   /\ UNCHANGED slash_info
    /\ UNCHANGED <<msg, indexed, per_slot, attester_index, result, observed_aggregators,
                   observed_attesters, shuffling_cache, environment, lock_level, slasher_accepted,
                   started_after>>

agg_verify_signatures(t) ==
    /\ pc[t] = "agg_signature"
    /\ LET r == AggSignatureStage(beacon_chain, msg[t], indexed[t]) IN
       IF IsErr(r)
       THEN Fail(t, SignatureInvalid(r[2])) /\ UNCHANGED sig_verified
       ELSE /\ sig_verified' = [sig_verified EXCEPT ![t] = TRUE]
            /\ Goto(t, "agg_late_attestation")
            /\ UNCHANGED slash_info
    /\ UNCHANGED <<msg, indexed, per_slot, attester_index, result, caches, shuffling_cache, environment, lock_level,
                   slasher_accepted, history>>

\* Faulty variant of the first half of verify_late_checks: the root is
\* looked up, not inserted.
AggLateChecksAttestation_WithoutInsert(m, attestations) ==
    LET attestation_root == tree_hash_root(m.aggregate)
    IN  IF is_known(attestations, attestation_root)
        THEN <<Err(<<"AttestationAlreadyKnown", attestation_root>>), attestations>>
        ELSE <<Ok(<<>>), attestations>>

\* verify_late_checks, first half: <<result, observed_attestations afterwards>>.
AggLateChecksAttestation(m, attestations) ==
    LET attestation_root == tree_hash_root(m.aggregate)
        outcome == observe_attestation(attestations, attestation_root)
    IN  IF outcome[1] = "AlreadyKnown"
        THEN <<Err(<<"AttestationAlreadyKnown", attestation_root>>), outcome[2]>>
        ELSE <<Ok(<<>>), outcome[2]>>

agg_verify_late_checks_attestation(t) ==
    /\ pc[t] = "agg_late_attestation"
    /\ LET late == AggLateChecksAttestation(msg[t], observed_attestations) IN
           /\ observed_attestations' = late[2]
           /\ wrote' = [wrote EXCEPT ![t] =
                  @ \cup Added("observed_attestations", observed_attestations, late[2])]
           /\ IF IsErr(late[1])
              THEN Fail(t, SignatureValid(indexed[t], late[1][2]))
              ELSE Goto(t, "agg_late_aggregator") /\ UNCHANGED slash_info
    /\ UNCHANGED <<msg, locals, result, observed_aggregators, observed_attesters,
                   shuffling_cache, environment, lock_level, slasher_accepted, started_after>>

\* Faulty variant of the second half of verify_late_checks: what
\* observe_validator reports is not looked at.
AggLateChecksAggregator_IgnoringOutcome(m, aggregators) ==
    <<Ok(<<>>), observe_validator(aggregators, m.aggregate, m.aggregator_index)[2]>>

\* verify_late_checks, second half: <<result, observed_aggregators afterwards>>.
AggLateChecksAggregator(m, aggregators) ==
    LET attestation == m.aggregate
        aggregator_index == m.aggregator_index
        outcome == observe_validator(aggregators, attestation, aggregator_index)
    IN  IF IsErr(outcome[1])
        THEN <<Err(BeaconChainError(outcome[1][2])), outcome[2]>>
        ELSE IF outcome[1][2]
        THEN <<Err(<<"PriorAttestationKnown", aggregator_index,
                     attestation.data.target.epoch>>), outcome[2]>>
        ELSE <<Ok(<<>>), outcome[2]>>

\* Faulty variant of verify_late_checks: when observing the aggregator fails,
\* the attestation root is taken out of observed_attestations again.
agg_verify_late_checks_aggregator_rolling_back(t) ==
    /\ pc[t] = "agg_late_aggregator"
    /\ LET late == AggLateChecksAggregator(msg[t], observed_aggregators) IN
           /\ observed_aggregators' = late[2]
           /\ wrote' = [wrote EXCEPT ![t] =
                  @ \cup Added("observed_aggregators", observed_aggregators, late[2])]
           /\ IF IsErr(late[1])
              THEN /\ Fail(t, SignatureValid(indexed[t], late[1][2]))
                   /\ observed_attestations' =
                          observed_attestations (-)
                              SetToBag({tree_hash_root(msg[t].aggregate)})
                   /\ UNCHANGED result
              ELSE /\ Return(t, Ok(Verified(msg[t], indexed[t])))
                   /\ UNCHANGED <<slash_info, observed_attestations>>
    /\ UNCHANGED <<msg, locals, observed_attesters,
                   shuffling_cache, environment, lock_level, slasher_accepted, started_after>>

\* verify_late_checks: observe the aggregator; verify_slashable returns.
agg_verify_late_checks_aggregator(t) ==
    /\ pc[t] = "agg_late_aggregator"
    /\ LET late == AggLateChecksAggregator(msg[t], observed_aggregators) IN
           /\ observed_aggregators' = late[2]
           /\ wrote' = [wrote EXCEPT ![t] =
                  @ \cup Added("observed_aggregators", observed_aggregators, late[2])]
           /\ IF IsErr(late[1])
              THEN Fail(t, SignatureValid(indexed[t], late[1][2])) /\ UNCHANGED result
              ELSE Return(t, Ok(Verified(msg[t], indexed[t]))) /\ UNCHANGED slash_info
    /\ UNCHANGED <<msg, locals, observed_attestations, observed_attesters,
                   shuffling_cache, environment, lock_level, slasher_accepted, started_after>>

-----------------------------------------------------------------------------
(* VerifiedUnaggregatedAttestation *)

\* Faulty variant of verify_early_checks: the set bits are not counted, the
\* empty case being left to verify_middle_checks.
UnaggEarlyChecks_WithoutBitCount(attestation, chain) ==
    LET range == verify_propagation_slot_range(chain, attestation)
        head == verify_head_block_is_known(attestation, chain.import_max_skip_slots)
    IN  IF IsErr(range) THEN range ELSE head

\* verify_early_checks: Ok(<<>>) or the error.
\* Faulty variant: the head block is tested before the bits are counted.
UnaggEarlyChecks_HeadBeforeBits(attestation, chain) ==
    LET range == verify_propagation_slot_range(chain, attestation)
        num_aggregation_bits == num_set_bits(attestation.aggregation_bits)
        head == verify_head_block_is_known(attestation, chain.import_max_skip_slots)
    IN  IF IsErr(range) THEN range
        ELSE IF IsErr(head) THEN head
        ELSE IF num_aggregation_bits # 1
        THEN Err(<<"NotExactlyOneAggregationBitSet", num_aggregation_bits>>)
        ELSE Ok(<<>>)

UnaggEarlyChecks(attestation, chain) ==
    LET range == verify_propagation_slot_range(chain, attestation)
        num_aggregation_bits == num_set_bits(attestation.aggregation_bits)
        head == verify_head_block_is_known(attestation, chain.import_max_skip_slots)
    IN  IF IsErr(range) THEN range
        ELSE IF num_aggregation_bits # 1
        THEN Err(<<"NotExactlyOneAggregationBitSet", num_aggregation_bits>>)
        ELSE head

unagg_verify_early_checks(t) ==
    /\ pc[t] = "unagg_early"
    /\ LET r == UnaggEarlyChecks(msg[t].aggregate, beacon_chain) IN
       IF IsErr(r)
       THEN Fail(t, SignatureNotChecked(msg[t].aggregate, r[2]))
       ELSE Goto(t, "unagg_committee") /\ UNCHANGED slash_info
    /\ UNCHANGED <<msg, locals, result, caches, shuffling_cache, environment, lock_level,
                   slasher_accepted, history>>

\* verify_slashable after obtain_indexed_attestation_and_committees_per_slot
\* returned r.
UnaggAfterCommittee(t, r) ==
    IF IsErr(r)
    THEN /\ Fail(t, SignatureNotChecked(msg[t].aggregate, r[2]))
         /\ UNCHANGED <<indexed, per_slot>>
    ELSE /\ indexed' = [indexed EXCEPT ![t] = r[2][1]]
         /\ per_slot' = [per_slot EXCEPT ![t] = r[2][2]]
         /\ Goto(t, "unagg_middle")
         /\ UNCHANGED slash_info

\* obtain_indexed_attestation_and_committees_per_slot: lookup and hit path.
unagg_obtain_indexed_attestation(t) ==
    /\ pc[t] = "unagg_committee"
    /\ LET attestation == msg[t].aggregate
           found == ShufflingLookup(attestation, shuffling_cache)
       IN  CASE IsErr(found) -> UnaggAfterCommittee(t, found)
             [] found[1] = "Hit" ->
                    UnaggAfterCommittee(t, ObtainWithCommittee(found[2], attestation))
             [] found[1] = "Miss" ->
                    /\ Goto(t, "unagg_committee_miss")
                    /\ UNCHANGED <<indexed, per_slot, slash_info>>
    /\ UNCHANGED <<msg, attester_index, sig_verified, result, caches, shuffling_cache, environment, lock_level,
                   slasher_accepted, history>>

\* obtain_indexed_attestation_and_committees_per_slot: the miss path.
unagg_obtain_indexed_attestation_miss(t) ==
    /\ pc[t] = "unagg_committee_miss"
    /\ LET attestation == msg[t].aggregate
           target_block == get_block(attestation.data.target.root)[2]
           cache == BuildCommitteeCache(attestation, target_block)
       IN  IF IsErr(cache)
           THEN UnaggAfterCommittee(t, cache) /\ UNCHANGED shuffling_cache
           ELSE /\ shuffling_cache' =
                       ShufflingInsert(shuffling_cache, ShufflingKey(attestation), cache[2])
                /\ UnaggAfterCommittee(t, ObtainWithCommittee(cache[2], attestation))
    /\ UNCHANGED <<msg, attester_index, sig_verified, result, caches, environment, lock_level,
                   slasher_accepted, history>>

\* Faulty variant of verify_middle_checks: PriorAttestationKnown carries the
\* committee position of the set bit in place of the validator index.
UnaggMiddleChecks_ReportingPosition(m, ia, n, attesters) ==
    LET attestation == m.aggregate
        expected_subnet_id == compute_subnet_for_attestation_data(ia.data, n)
    IN  IF m.subnet_id # expected_subnet_id
        THEN Err(<<"InvalidSubnetId", m.subnet_id, expected_subnet_id>>)
        ELSE IF ia.attesting_indices = <<>>
        THEN Err(<<"NotExactlyOneAggregationBitSet", 0>>)
        ELSE LET validator_index == Head(ia.attesting_indices)
                 position == CHOOSE i \in DOMAIN attestation.aggregation_bits :
                                 attestation.aggregation_bits[i]
                 seen == validator_has_been_observed(attesters, attestation,
                                                     validator_index)
             IN  IF IsErr(seen) THEN Err(BeaconChainError(seen[2]))
                 ELSE IF seen[2]
                 THEN Err(<<"PriorAttestationKnown", position,
                            attestation.data.target.epoch>>)
                 ELSE Ok(validator_index)

\* Faulty variant of verify_middle_checks: observed_attesters is asked before
\* the subnet is compared.
UnaggMiddleChecks_ObservedFirst(m, ia, n, attesters) ==
    LET attestation == m.aggregate
        expected_subnet_id == compute_subnet_for_attestation_data(ia.data, n)
    IN  IF ia.attesting_indices = <<>>
        THEN Err(<<"NotExactlyOneAggregationBitSet", 0>>)
        ELSE LET validator_index == Head(ia.attesting_indices)
                 seen == validator_has_been_observed(attesters, attestation,
                                                     validator_index)
             IN  IF IsErr(seen) THEN Err(BeaconChainError(seen[2]))
                 ELSE IF seen[2]
                 THEN Err(<<"PriorAttestationKnown", validator_index,
                            attestation.data.target.epoch>>)
                 ELSE IF m.subnet_id # expected_subnet_id
                 THEN Err(<<"InvalidSubnetId", m.subnet_id, expected_subnet_id>>)
                 ELSE Ok(validator_index)

\* verify_middle_checks: Ok(validator_index) or the error.
UnaggMiddleChecks(m, ia, n, attesters) ==
    LET attestation == m.aggregate
        expected_subnet_id == compute_subnet_for_attestation_data(ia.data, n)
    IN  IF m.subnet_id # expected_subnet_id
        THEN Err(<<"InvalidSubnetId", m.subnet_id, expected_subnet_id>>)
        ELSE IF ia.attesting_indices = <<>>
        THEN Err(<<"NotExactlyOneAggregationBitSet", 0>>)
        ELSE LET validator_index == Head(ia.attesting_indices)
                 seen == validator_has_been_observed(attesters, attestation,
                                                     validator_index)
             IN  IF IsErr(seen) THEN Err(BeaconChainError(seen[2]))
                 ELSE IF seen[2]
                 THEN Err(<<"PriorAttestationKnown", validator_index,
                            attestation.data.target.epoch>>)
                 ELSE Ok(validator_index)

unagg_verify_middle_checks(t) ==
    /\ pc[t] = "unagg_middle"
    /\ LET r == UnaggMiddleChecks(msg[t], indexed[t], per_slot[t], observed_attesters) IN
       IF IsErr(r)
       THEN Fail(t, SignatureNotCheckedIndexed(indexed[t], r[2]))
            /\ UNCHANGED attester_index
       ELSE /\ attester_index' = [attester_index EXCEPT ![t] = r[2]]
            /\ Goto(t, "unagg_signature")
            /\ UNCHANGED slash_info
    /\ UNCHANGED <<msg, indexed, per_slot, sig_verified, result, caches,
                   shuffling_cache, environment, lock_level, slasher_accepted, history>>

unagg_verify_attestation_signature(t) ==
    /\ pc[t] = "unagg_signature"
    /\ LET r == verify_attestation_signature(beacon_chain, indexed[t]) IN
       IF IsErr(r)
       THEN Fail(t, SignatureInvalid(r[2])) /\ UNCHANGED sig_verified
       ELSE /\ sig_verified' = [sig_verified EXCEPT ![t] = TRUE]
            /\ Goto(t, "unagg_late")
            /\ UNCHANGED slash_info
    /\ UNCHANGED <<msg, indexed, per_slot, attester_index, result, caches, shuffling_cache, environment, lock_level,
                   slasher_accepted, history>>

\* Faulty variant of verify_late_checks: what observe_validator reports is
\* not looked at.
UnaggLateChecks_IgnoringOutcome(attestation, validator_index, attesters) ==
    <<Ok(<<>>), observe_validator(attesters, attestation, validator_index)[2]>>

\* Faulty variant of verify_late_checks: the cache is queried, not written.
UnaggLateChecks_WithoutInsert(attestation, validator_index, attesters) ==
    LET seen == validator_has_been_observed(attesters, attestation, validator_index) IN
    IF IsErr(seen)
    THEN <<Err(BeaconChainError(seen[2])), attesters>>
    ELSE IF seen[2]
    THEN <<Err(<<"PriorAttestationKnown", validator_index,
                 attestation.data.target.epoch>>), attesters>>
    ELSE <<Ok(<<>>), attesters>>

\* Faulty variant of verify_late_checks: the committee position of the set
\* bit is observed in place of the validator index.
UnaggLateChecks_ByPosition(attestation, validator_index, attesters) ==
    LET position == CHOOSE i \in DOMAIN attestation.aggregation_bits :
                        attestation.aggregation_bits[i]
        outcome == observe_validator(attesters, attestation, position)
    IN  IF IsErr(outcome[1])
        THEN <<Err(BeaconChainError(outcome[1][2])), outcome[2]>>
        ELSE IF outcome[1][2]
        THEN <<Err(<<"PriorAttestationKnown", validator_index,
                     attestation.data.target.epoch>>), outcome[2]>>
        ELSE <<Ok(<<>>), outcome[2]>>

\* verify_late_checks: <<result, observed_attesters afterwards>>.
UnaggLateChecks(attestation, validator_index, attesters) ==
    LET outcome == observe_validator(attesters, attestation, validator_index) IN
    IF IsErr(outcome[1])
    THEN <<Err(BeaconChainError(outcome[1][2])), outcome[2]>>
    ELSE IF outcome[1][2]
    THEN <<Err(<<"PriorAttestationKnown", validator_index,
                 attestation.data.target.epoch>>), outcome[2]>>
    ELSE <<Ok(<<>>), outcome[2]>>

\* verify_late_checks: observe the attester; verify_slashable returns.
unagg_verify_late_checks(t) ==
    /\ pc[t] = "unagg_late"
    /\ LET late == UnaggLateChecks(msg[t].aggregate, attester_index[t],
                                   observed_attesters) IN
           /\ observed_attesters' = late[2]
           /\ wrote' = [wrote EXCEPT ![t] =
                  @ \cup Added("observed_attesters", observed_attesters, late[2])]
           /\ IF IsErr(late[1])
              THEN Fail(t, SignatureValid(indexed[t], late[1][2])) /\ UNCHANGED result
              ELSE Return(t, Ok(Verified(msg[t], indexed[t]))) /\ UNCHANGED slash_info
    /\ UNCHANGED <<msg, locals, observed_attestations, observed_aggregators,
                   shuffling_cache, environment, lock_level, slasher_accepted, started_after>>

-----------------------------------------------------------------------------
(* process_slash_info *)

\* Faulty variant of the forwarding: the slasher is handed the attestation
\* twice.
Accept_Twice(t, ia) ==
    /\ slasher_accepted' = [slasher_accepted EXCEPT ![t] = Append(Append(@, ia), ia)]
    /\ Return(t, Err(SlashError(slash_info[t])))

\* slasher.accept_attestation(ia), then the error is returned.
Accept(t, ia) ==
    /\ slasher_accepted' = [slasher_accepted EXCEPT ![t] = Append(@, ia)]
    /\ Return(t, Err(SlashError(slash_info[t])))

\* The slasher gets nothing; the error is returned.
Drop(t) ==
    /\ Return(t, Err(SlashError(slash_info[t])))
    /\ UNCHANGED slasher_accepted

\* Faulty variant of the SignatureNotChecked arm: nothing is forwarded.
SlashAfterCommittee_Dropping(t, r) == Drop(t)

\* The SignatureNotChecked arm after obtain_indexed_attestation_... returned r.
SlashAfterCommittee(t, r) ==
    IF IsErr(r) THEN Drop(t) ELSE Accept(t, r[2][1])

\* Faulty variant of process_slash_info: when the committee resolution of the
\* SignatureNotChecked arm fails, its error is returned.
process_slash_info_returning_second_error(t) ==
    /\ pc[t] = "slash"
    /\ LET si == slash_info[t]
           found == ShufflingLookup(si[2], shuffling_cache)
       IN  IF slasher
           THEN CASE si[1] = "SignatureNotChecked" ->
                       (CASE IsErr(found) ->
                                 Return(t, found) /\ UNCHANGED slasher_accepted
                          [] found[1] = "Hit" ->
                                 SlashAfterCommittee(t, ObtainWithCommittee(found[2], si[2]))
                          [] found[1] = "Miss" ->
                                 /\ Goto(t, "slash_miss")
                                 /\ UNCHANGED <<result, slasher_accepted>>)
                  [] si[1] = "SignatureNotCheckedIndexed" -> Accept(t, si[2])
                  [] si[1] = "SignatureInvalid" -> Drop(t)
                  [] si[1] = "SignatureValid" -> Accept(t, si[2])
           ELSE Drop(t)
    /\ UNCHANGED <<msg, locals, slash_info, caches, shuffling_cache, environment, lock_level, history>>

\* process_slash_info, up to the shuffling-cache lookup of the
\* SignatureNotChecked arm when that misses.
process_slash_info(t) ==
    /\ pc[t] = "slash"
    /\ LET si == slash_info[t]
           found == ShufflingLookup(si[2], shuffling_cache)
       IN  IF slasher
           THEN CASE si[1] = "SignatureNotChecked" ->
                       (CASE IsErr(found) -> Drop(t)
                          [] found[1] = "Hit" ->
                                 SlashAfterCommittee(t, ObtainWithCommittee(found[2], si[2]))
                          [] found[1] = "Miss" ->
                                 /\ Goto(t, "slash_miss")
                                 /\ UNCHANGED <<result, slasher_accepted>>)
                  [] si[1] = "SignatureNotCheckedIndexed" -> Accept(t, si[2])
                  [] si[1] = "SignatureInvalid" -> Drop(t)
                  [] si[1] = "SignatureValid" -> Accept(t, si[2])
           ELSE Drop(t)
    /\ UNCHANGED <<msg, locals, slash_info, caches, shuffling_cache, environment, lock_level, history>>

\* process_slash_info: the miss path of the committee resolution.
process_slash_info_miss(t) ==
    /\ pc[t] = "slash_miss"
    /\ LET attestation == slash_info[t][2]
           target_block == get_block(attestation.data.target.root)[2]
           cache == BuildCommitteeCache(attestation, target_block)
       IN  IF IsErr(cache)
           THEN Drop(t) /\ UNCHANGED shuffling_cache
           ELSE /\ shuffling_cache' =
                       ShufflingInsert(shuffling_cache, ShufflingKey(attestation), cache[2])
                /\ SlashAfterCommittee(t, ObtainWithCommittee(cache[2], attestation))
    /\ UNCHANGED <<msg, locals, slash_info, caches, environment, lock_level, history>>

-----------------------------------------------------------------------------

Next ==
    \E t \in Calls :
        \/ \E m \in Messages : verify(t, m)
        \/ agg_verify_early_checks_attestation(t)
        \/ agg_verify_early_checks_aggregator(t)
        \/ agg_map_attestation_committee(t)
        \/ agg_map_attestation_committee_miss(t)
        \/ agg_verify_signatures(t)
        \/ agg_verify_late_checks_attestation(t)
        \/ agg_verify_late_checks_aggregator(t)
        \/ unagg_verify_early_checks(t)
        \/ unagg_obtain_indexed_attestation(t)
        \/ unagg_obtain_indexed_attestation_miss(t)
        \/ unagg_verify_middle_checks(t)
        \/ unagg_verify_attestation_signature(t)
        \/ unagg_verify_late_checks(t)
        \/ process_slash_info(t)
        \/ process_slash_info_miss(t)

Spec == Init /\ [][Next]_vars

-----------------------------------------------------------------------------
(* Calls made one after the other, over more messages, clocks and configs   *)

\* The clocks and configurations of the sequential runs:
\* MAXIMUM_GOSSIP_CLOCK_DISPARITY widens the clock on both sides.
Chains ==
    { DefaultChain,
      [now_with_future_tolerance |-> Some(4), now_with_past_tolerance |-> Some(3),
       import_max_skip_slots |-> Some(1), pubkey_cache_len |-> pubkey_cache_len],
      [now_with_future_tolerance |-> Some(1), now_with_past_tolerance |-> Some(1),
       import_max_skip_slots |-> Some(1), pubkey_cache_len |-> pubkey_cache_len],
      [now_with_future_tolerance |-> Some(3), now_with_past_tolerance |-> Some(3),
       import_max_skip_slots |-> Some(0), pubkey_cache_len |-> pubkey_cache_len] }

\* Slot 3 on the block of slot 2: one skipped slot.
Y3 == Att(3, 0, "A", 1, "A", <<F, T>>, {2})

SeqAggregateMessages ==
    { Agg(0, X1, 0, T, T),                                   \* valid
      Agg(0, X2, 0, T, T),                                   \* valid, same aggregator
      Agg(0, X2, 1, T, T),                                   \* selection proof does not elect
      Agg(1, X2, 1, T, F),                                   \* nor is 1 in the committee
      Agg(0, X1, 0, T, F),                                   \* envelope signature invalid
      Agg(2, Att(2, 0, "Z", 1, "A", <<T, T>>, {0, 2}), 0, T, T), \* head unknown
      Agg(2, Y3, 0, T, T),                                   \* valid, one skipped slot
      Agg(0, Att(5, 0, "A", 2, "A", <<T, T>>, {0, 1}), 0, T, T), \* slot 5
      Agg(0, Att(2, 0, "A", 1, "Z", <<T, T>>, {0, 2}), 0, T, T) } \* target unknown

SeqUnaggregatedMessages ==
    { Unagg(X2, 0),                                          \* valid, validator 2
      Unagg(X3, 1),                                          \* valid, validator 2, other data
      Unagg(Att(2, 0, "A", 1, "A", <<T, F>>, {}), 0),        \* signature invalid
      Unagg(X2, 1),                                          \* wrong subnet
      Unagg(X2, 63),                                         \* wrong subnet
      Unagg(X1, 0),                                          \* two bits set
      Unagg(Att(2, 0, "A", 1, "A", <<F, F>>, {}), 0),        \* no bit set
      Unagg(Att(5, 0, "A", 2, "A", <<T, T>>, {0, 1}), 1),    \* two bits set, slot 5
      Unagg(Att(2, 0, "Z", 1, "A", <<T, F>>, {2}), 0),       \* head unknown
      Unagg(Att(2, 0, "A", 1, "Z", <<T, F>>, {2}), 0),       \* target unknown
      Unagg(Y3, 1),                                          \* one skipped slot
      Unagg(Att(4, 0, "A", 2, "A", <<T, F>>, {0}), 0),       \* slot 4, two skipped slots
      Unagg(Att(0, 0, "A", 0, "A", <<T, F>>, {0}), 0),       \* slot 0
      Unagg(Att(1, 0, "A", 0, "A", <<T, F>>, {1}), 1) }      \* slot 1

SeqMessages == SeqAggregateMessages \cup SeqUnaggregatedMessages

InitSeq ==
    /\ pc = [t \in Calls |-> "idle"]
    /\ msg = [t \in Calls |-> NoMsg]
    /\ indexed = [t \in Calls |-> NoIndexed]
    /\ per_slot = [t \in Calls |-> 0]
    /\ attester_index = [t \in Calls |-> 0]
    /\ sig_verified = [t \in Calls |-> FALSE]
    /\ slash_info = [t \in Calls |-> NoSlashInfo]
    /\ result = [t \in Calls |-> NoResult]
    /\ observed_attestations = EmptyBag
    /\ observed_aggregators = EmptyBag
    /\ observed_attesters = EmptyBag
    /\ shuffling_cache = <<>>
    /\ slasher \in BOOLEAN
    /\ beacon_chain \in Chains
    /\ slasher_accepted = [t \in Calls |-> <<>>]
    /\ wrote = [t \in Calls |-> {}]
    /\ started_after = [t \in Calls |-> {}]
    /\ held = [t \in Calls |-> <<>>]
    /\ node_holds = {}
    /\ local_state = [t \in Calls |-> NoState]
    /\ ValidatorClientInit

\* verify is entered once every earlier call has returned.
NextSeq ==
    \E t \in Calls :
        \/ \E m \in SeqMessages :
               /\ \A c \in Calls : c < t => pc[c] = "done"
               /\ verify(t, m)
        \/ agg_verify_early_checks_attestation(t)
        \/ agg_verify_early_checks_aggregator(t)
        \/ agg_map_attestation_committee(t)
        \/ agg_map_attestation_committee_miss(t)
        \/ agg_verify_signatures(t)
        \/ agg_verify_late_checks_attestation(t)
        \/ agg_verify_late_checks_aggregator(t)
        \/ unagg_verify_early_checks(t)
        \/ unagg_obtain_indexed_attestation(t)
        \/ unagg_obtain_indexed_attestation_miss(t)
        \/ unagg_verify_middle_checks(t)
        \/ unagg_verify_attestation_signature(t)
        \/ unagg_verify_late_checks(t)
        \/ process_slash_info(t)
        \/ process_slash_info_miss(t)

SpecSeq == InitSeq /\ [][NextSeq]_vars

-----------------------------------------------------------------------------
(* Calls one after the other with messages that fail several checks at once *)

OrderAggregateMessages ==
    { Agg(0, X1, 0, T, T),                                   \* valid
      Agg(2, X1, 0, T, T),                                   \* valid, same attestation
      Agg(0, X2, 0, T, T),                                   \* valid, same aggregator
      Agg(0, X1, 0, T, F),                                   \* envelope signature invalid
      Agg(0, Att(0, 0, "Z", 0, "A", <<F, F>>, {}), 0, T, T), \* slot 0, head unknown, no bit
      Agg(0, Att(2, 0, "Z", 1, "A", <<F, F>>, {}), 0, T, T), \* head unknown, no bit
      Agg(9, Att(2, 0, "Z", 1, "A", <<T, T>>, {0, 2}), 0, T, T), \* index 9, head unknown
      Agg(0, Att(2, 0, "A", 1, "Z", <<F, F>>, {}), 0, T, T), \* no bit, target unknown
      Agg(0, Att(2, 1, "A", 1, "Z", <<T, T>>, {0, 2}), 1, T, T), \* target unknown, no committee 1
      Agg(1, Att(2, 1, "A", 1, "A", <<T, T>>, {0, 2}), 1, T, T), \* no committee 1, not elected
      Agg(1, X2, 1, T, F),                                   \* not elected, not a member
      Agg(1, Att(2, 0, "A", 1, "A", <<T, T, T>>, {0, 2}), 0, T, T), \* not a member, three bits
      Agg(0, Att(2, 0, "A", 1, "A", <<T, T, T>>, {0, 2}), 0, T, F) } \* three bits, signature invalid

OrderUnaggregatedMessages ==
    { Unagg(X2, 0),                                          \* valid, validator 2
      Unagg(X2, 1),                                          \* wrong subnet
      Unagg(Att(2, 0, "A", 1, "A", <<T, F>>, {}), 0),        \* signature invalid
      Unagg(Att(2, 0, "A", 1, "A", <<T, F>>, {}), 1),        \* wrong subnet, signature invalid
      Unagg(Att(0, 0, "Z", 0, "A", <<F, F>>, {}), 0),        \* slot 0, no bit, head unknown
      Unagg(Att(2, 0, "Z", 1, "A", <<T, T>>, {0, 2}), 0),    \* two bits, head unknown
      Unagg(Att(2, 0, "Z", 1, "Z", <<T, F>>, {2}), 1),       \* head and target unknown
      Unagg(Att(3, 0, "A", 1, "Z", <<T, F>>, {1}), 5),       \* a skipped slot, target unknown
      Unagg(Att(2, 0, "A", 1, "Z", <<T, F>>, {2}), 5),       \* target unknown, wrong subnet
      Unagg(Att(2, 1, "A", 1, "A", <<T, F>>, {2}), 5) }      \* no committee 1, wrong subnet

OrderMessages == OrderAggregateMessages \cup OrderUnaggregatedMessages

NextOrder ==
    \E t \in Calls :
        \/ \E m \in OrderMessages :
               /\ \A c \in Calls : c < t => pc[c] = "done"
               /\ verify(t, m)
        \/ agg_verify_early_checks_attestation(t)
        \/ agg_verify_early_checks_aggregator(t)
        \/ agg_map_attestation_committee(t)
        \/ agg_map_attestation_committee_miss(t)
        \/ agg_verify_signatures(t)
        \/ agg_verify_late_checks_attestation(t)
        \/ agg_verify_late_checks_aggregator(t)
        \/ unagg_verify_early_checks(t)
        \/ unagg_obtain_indexed_attestation(t)
        \/ unagg_obtain_indexed_attestation_miss(t)
        \/ unagg_verify_middle_checks(t)
        \/ unagg_verify_attestation_signature(t)
        \/ unagg_verify_late_checks(t)
        \/ process_slash_info(t)
        \/ process_slash_info_miss(t)

SpecOrder == InitSeq /\ [][NextOrder]_vars

-----------------------------------------------------------------------------
(* Concurrent calls over the messages that end in every slash info          *)

RaceAggregateMessages ==
    { Agg(0, X1, 0, T, T),                                   \* valid
      Agg(2, X1, 0, T, T),                                   \* valid, same attestation
      Agg(0, X1, 0, T, F),                                   \* envelope signature invalid
      Agg(0, X2, 1, T, T),                                   \* selection proof does not elect
      Agg(1, X1, 0, T, T),                                   \* 1 is not in the committee
      Agg(2, Att(2, 0, "Z", 1, "A", <<T, T>>, {0, 2}), 0, T, T), \* head unknown
      Agg(2, Att(2, 0, "Z", 1, "Z", <<T, T>>, {0, 2}), 0, T, T) } \* head and target unknown

RaceUnaggregatedMessages ==
    { Unagg(X2, 0),                                          \* valid, validator 2
      Unagg(Att(2, 0, "A", 1, "A", <<T, F>>, {}), 0),        \* signature invalid
      Unagg(X2, 1) }                                         \* wrong subnet

RaceMessages == RaceAggregateMessages \cup RaceUnaggregatedMessages

NextRace ==
    \E t \in Calls :
        \/ \E m \in RaceMessages : verify(t, m)
        \/ agg_verify_early_checks_attestation(t)
        \/ agg_verify_early_checks_aggregator(t)
        \/ agg_map_attestation_committee(t)
        \/ agg_map_attestation_committee_miss(t)
        \/ agg_verify_signatures(t)
        \/ agg_verify_late_checks_attestation(t)
        \/ agg_verify_late_checks_aggregator(t)
        \/ unagg_verify_early_checks(t)
        \/ unagg_obtain_indexed_attestation(t)
        \/ unagg_obtain_indexed_attestation_miss(t)
        \/ unagg_verify_middle_checks(t)
        \/ unagg_verify_attestation_signature(t)
        \/ unagg_verify_late_checks(t)
        \/ process_slash_info(t)
        \/ process_slash_info_miss(t)

SpecRace == Init /\ [][NextRace]_vars

-----------------------------------------------------------------------------
(* Calls followed lock by lock: map_attestation_committee and the signature *)
(* stage are cut at every lock they take or drop, and another thread of the *)
(* node takes the same locks for writing.                                   *)

\* The locks of the chain that the functions of a verify call take.
Locks == {"validator_pubkey_cache", "canonical_head", "shuffling_cache", "fork_choice"}

\* The calls that hold the lock.
HeldByCall(lock) == {c \in Calls : \E i \in DOMAIN held[c] : held[c][i] = lock}

\* read() and try_read_for() get the lock: no thread holds it for writing
\* (the calls write-lock the shuffling cache only, and never read-lock it).
CanRead(lock) == lock \notin node_holds

\* try_write_for() gets the lock: no thread holds it.
CanWrite(lock) == lock \notin node_holds /\ HeldByCall(lock) = {}

\* process_slash_info runs: verify_slashable has returned its slash info.
InProcessSlashInfo(t) == slash_info[t] # NoSlashInfo

\* The attestation map_attestation_committee was called with.
MapAttestation(t) ==
    IF InProcessSlashInfo(t) THEN slash_info[t][2] ELSE msg[t].aggregate

\* Faulty variant: the committee is looked up without the attestation's
\* index.
MapWithCommittee_IgnoringIndex(t, committee_cache) ==
    LET att == MapAttestation(t)
        first == [att EXCEPT !.data.index = 0]
    IN  IF ~InProcessSlashInfo(t) /\ msg[t].kind = "aggregate"
        THEN AggregateWithCommittee(committee_cache, [msg[t] EXCEPT !.aggregate = first])
        ELSE ObtainWithCommittee(committee_cache, first)

\* The committee of the committee cache and the caller's map_fn on it.
MapWithCommittee(t, committee_cache) ==
    IF ~InProcessSlashInfo(t) /\ msg[t].kind = "aggregate"
    THEN AggregateWithCommittee(committee_cache, msg[t])
    ELSE ObtainWithCommittee(committee_cache, MapAttestation(t))

\* map_attestation_committee returns r to its caller.
MapReturns(t, r) ==
    CASE InProcessSlashInfo(t) ->
             SlashAfterCommittee(t, r) /\ UNCHANGED <<locals, slash_info>>
      [] ~InProcessSlashInfo(t) /\ msg[t].kind = "aggregate" ->
             /\ AggAfterCommittee(t, r)
             /\ UNCHANGED <<per_slot, attester_index, sig_verified, result,
                            slasher_accepted>>
      [] ~InProcessSlashInfo(t) /\ msg[t].kind = "unaggregated" ->
             /\ UnaggAfterCommittee(t, r)
             /\ UNCHANGED <<attester_index, sig_verified, result, slasher_accepted>>

\* map_attestation_committee goes on inside: its caller sees nothing yet.
MapGoto(t, stage) ==
    /\ Goto(t, stage)
    /\ UNCHANGED <<locals, slash_info, result, slasher_accepted>>

\* verify_head_block_is_known is the next thing the call's early checks do:
\* they read-lock fork choice.
ReadsForkChoice(t) ==
    CASE pc[t] = "agg_early_aggregator" ->
             LET seen == validator_has_been_observed(observed_aggregators,
                             msg[t].aggregate, msg[t].aggregator_index)
             IN  IsOk(seen) /\ ~seen[2]
      [] pc[t] = "unagg_early" ->
             /\ IsOk(verify_propagation_slot_range(beacon_chain, msg[t].aggregate))
             /\ num_set_bits(msg[t].aggregate.aggregation_bits) = 1
      [] OTHER -> FALSE

\* Faulty variant of process_slash_info: the committee of a
\* SignatureNotChecked is resolved whether or not there is a slasher.
process_slash_info_arms_always_resolving(t) ==
    /\ pc[t] = "slash"
    /\ LET si == slash_info[t] IN
       CASE si[1] = "SignatureNotChecked" ->
                /\ Goto(t, "slash_committee")
                /\ UNCHANGED <<result, slasher_accepted>>
         [] si[1] = "SignatureNotCheckedIndexed" ->
                IF slasher THEN Accept(t, si[2]) ELSE Drop(t)
         [] si[1] = "SignatureInvalid" -> Drop(t)
         [] si[1] = "SignatureValid" ->
                IF slasher THEN Accept(t, si[2]) ELSE Drop(t)
    /\ UNCHANGED <<msg, locals, slash_info, caches, shuffling_cache, environment,
                   lock_level, history>>

\* process_slash_info up to the call of
\* obtain_indexed_attestation_and_committees_per_slot.
process_slash_info_arms(t) ==
    /\ pc[t] = "slash"
    /\ LET si == slash_info[t] IN
       IF slasher
       THEN CASE si[1] = "SignatureNotChecked" ->
                     /\ Goto(t, "slash_committee")
                     /\ UNCHANGED <<result, slasher_accepted>>
              [] si[1] = "SignatureNotCheckedIndexed" -> Accept(t, si[2])
              [] si[1] = "SignatureInvalid" -> Drop(t)
              [] si[1] = "SignatureValid" -> Accept(t, si[2])
       ELSE Drop(t)
    /\ UNCHANGED <<msg, locals, slash_info, caches, shuffling_cache, environment,
                   lock_level, history>>

\* map_attestation_committee: chain.fork_choice.read().get_block(&target.root)
map_get_block(t) ==
    /\ pc[t] \in {"agg_committee", "unagg_committee", "slash_committee"}
    /\ CanRead("fork_choice")
    /\ LET target == MapAttestation(t).data.target IN
       IF get_block(target.root) = None
       THEN MapReturns(t, Err(<<"UnknownTargetRoot", target.root>>))
       ELSE MapGoto(t, "map_lock")
    /\ UNCHANGED <<msg, caches, shuffling_cache, environment, lock_level, history>>

\* Faulty variant of the first acquisition: the call waits for the lock.
map_try_write_waiting(t) ==
    /\ pc[t] = "map_lock"
    /\ CanWrite("shuffling_cache")
    /\ held' = [held EXCEPT ![t] = Append(@, "shuffling_cache")]
    /\ MapGoto(t, "map_lookup")
    /\ UNCHANGED <<msg, caches, shuffling_cache, environment, node_holds,
                   local_state, history>>

\* chain.shuffling_cache.try_write_for(ATTESTATION_CACHE_LOCK_TIMEOUT)
map_try_write(t) ==
    /\ pc[t] = "map_lock"
    /\ IF CanWrite("shuffling_cache")
       THEN /\ held' = [held EXCEPT ![t] = Append(@, "shuffling_cache")]
            /\ MapGoto(t, "map_lookup")
       ELSE /\ MapReturns(t, Err(BeaconChainError("AttestationCacheLockTimeout")))
            /\ UNCHANGED held
    /\ UNCHANGED <<msg, caches, shuffling_cache, environment, node_holds,
                   local_state, history>>

\* Faulty variant of the lookup: the lock is kept on a miss.
map_lookup_keeping_lock(t) ==
    /\ pc[t] = "map_lookup"
    /\ IF ShufflingKey(MapAttestation(t)) \in DOMAIN shuffling_cache
       THEN MapGoto(t, "map_hit")
       ELSE MapGoto(t, "map_miss")
    /\ UNCHANGED <<msg, caches, shuffling_cache, environment, lock_level, history>>

\* shuffling_cache.get(attestation_epoch, target.root); on a miss
\* drop(shuffling_cache).
map_lookup(t) ==
    /\ pc[t] = "map_lookup"
    /\ IF ShufflingKey(MapAttestation(t)) \in DOMAIN shuffling_cache
       THEN MapGoto(t, "map_hit") /\ UNCHANGED held
       ELSE /\ MapGoto(t, "map_miss")
            /\ held' = [held EXCEPT ![t] = <<>>]
    /\ UNCHANGED <<msg, caches, shuffling_cache, environment, node_holds,
                   local_state, history>>

\* The hit path: get_beacon_committee and map_fn under the lock, which the
\* return drops.
map_hit(t) ==
    /\ pc[t] = "map_hit"
    /\ MapReturns(t, MapWithCommittee(t,
                         shuffling_cache[ShufflingKey(MapAttestation(t))]))
    /\ held' = [held EXCEPT ![t] = <<>>]
    /\ UNCHANGED <<msg, caches, shuffling_cache, environment, node_holds,
                   local_state, history>>

\* The miss path: the state of the target block is read from the store.
map_state_read(t) ==
    /\ pc[t] = "map_miss"
    /\ LET target_block == get_block(MapAttestation(t).data.target.root)[2]
           loaded == get_inconsistent_state_for_attestation_verification_only(
                         target_block.state_root)
       IN  IF loaded = None
           THEN /\ MapReturns(t, Err(BeaconChainError("MissingBeaconState")))
                /\ UNCHANGED local_state
           ELSE /\ local_state' = [local_state EXCEPT ![t] = loaded[2]]
                /\ MapGoto(t, "map_skip")
    /\ UNCHANGED <<msg, caches, shuffling_cache, environment, held, node_holds,
                   history>>

\* Faulty variant of the loop body: the state stays at its slot.
map_per_slot_processing_standing_still(t) ==
    /\ pc[t] = "map_skip"
    /\ NeedsSkip(local_state[t], Epoch(MapAttestation(t).data.slot))
    /\ UNCHANGED <<pc, locals, slash_info, result, slasher_accepted>>
    /\ UNCHANGED <<msg, caches, shuffling_cache, environment, lock_level, history>>

\* One turn of the loop
\* while state.current_epoch() + 1 < attestation_epoch { per_slot_processing? }
map_per_slot_processing(t) ==
    /\ pc[t] = "map_skip"
    /\ NeedsSkip(local_state[t], Epoch(MapAttestation(t).data.slot))
    /\ LET next == per_slot_processing(local_state[t]) IN
       IF IsErr(next)
       THEN /\ MapReturns(t, next)
            /\ local_state' = [local_state EXCEPT ![t] = NoState]
       ELSE /\ local_state' = [local_state EXCEPT ![t] = next[2]]
            /\ UNCHANGED <<pc, locals, slash_info, result, slasher_accepted>>
    /\ UNCHANGED <<msg, caches, shuffling_cache, environment, held, node_holds,
                   history>>

\* Faulty variant of the step after the loop: the relative epoch is not
\* looked at.
map_build_committee_cache_for_any_epoch(t) ==
    /\ pc[t] = "map_skip"
    /\ ~NeedsSkip(local_state[t], Epoch(MapAttestation(t).data.slot))
    /\ MapGoto(t, "map_insert")
    /\ UNCHANGED <<msg, caches, shuffling_cache, environment, lock_level, history>>

\* After the loop: RelativeEpoch::from_epoch, build_committee_cache,
\* committee_cache.
map_build_committee_cache(t) ==
    /\ pc[t] = "map_skip"
    /\ ~NeedsSkip(local_state[t], Epoch(MapAttestation(t).data.slot))
    /\ LET cache == CommitteeCacheFromState(local_state[t], MapAttestation(t)) IN
       IF IsErr(cache)
       THEN /\ MapReturns(t, cache)
            /\ local_state' = [local_state EXCEPT ![t] = NoState]
       ELSE MapGoto(t, "map_insert") /\ UNCHANGED local_state
    /\ UNCHANGED <<msg, caches, shuffling_cache, environment, held, node_holds,
                   history>>

\* chain.shuffling_cache.try_write_for(ATTESTATION_CACHE_LOCK_TIMEOUT) of the
\* insert.
map_insert_try_write(t) ==
    /\ pc[t] = "map_insert"
    /\ IF CanWrite("shuffling_cache")
       THEN /\ held' = [held EXCEPT ![t] = Append(@, "shuffling_cache")]
            /\ MapGoto(t, "map_inserting")
            /\ UNCHANGED local_state
       ELSE /\ MapReturns(t, Err(BeaconChainError("AttestationCacheLockTimeout")))
            /\ local_state' = [local_state EXCEPT ![t] = NoState]
            /\ UNCHANGED held
    /\ UNCHANGED <<msg, caches, shuffling_cache, environment, node_holds, history>>

\* Faulty variant of the insert: the lock is kept and the call goes on to the
\* entry of the cache.
map_insert_reading_back(t) ==
    /\ pc[t] = "map_inserting"
    /\ LET attestation == MapAttestation(t)
           committee_cache == CommitteeCacheFromState(local_state[t], attestation)[2]
       IN  shuffling_cache' = ShufflingInsert(shuffling_cache,
                                  ShufflingKey(attestation), committee_cache)
    /\ MapGoto(t, "map_hit")
    /\ UNCHANGED <<msg, caches, environment, lock_level, history>>

\* .insert(attestation_epoch, target.root, committee_cache) under the lock of
\* that statement, which ends with the lock dropped.
map_insert(t) ==
    /\ pc[t] = "map_inserting"
    /\ LET attestation == MapAttestation(t)
           committee_cache == CommitteeCacheFromState(local_state[t], attestation)[2]
       IN  shuffling_cache' = ShufflingInsert(shuffling_cache,
                                  ShufflingKey(attestation), committee_cache)
    /\ held' = [held EXCEPT ![t] = <<>>]
    /\ MapGoto(t, "map_local")
    /\ UNCHANGED <<msg, caches, environment, node_holds, local_state, history>>

\* The end of the miss path: get_beacon_committee and map_fn on the local
\* committee_cache, the one borrowed from the call's own state.
map_local(t) ==
    /\ pc[t] = "map_local"
    /\ LET attestation == MapAttestation(t)
           committee_cache == CommitteeCacheFromState(local_state[t], attestation)[2]
       IN  MapReturns(t, MapWithCommittee(t, committee_cache))
    /\ local_state' = [local_state EXCEPT ![t] = NoState]
    /\ UNCHANGED <<msg, caches, shuffling_cache, environment, held, node_holds,
                   history>>

\* The signature stage fails with e.
SignatureStageFails(t, e) ==
    /\ Fail(t, SignatureInvalid(e))
    /\ held' = [held EXCEPT ![t] = <<>>]
    /\ UNCHANGED sig_verified

\* chain.validator_pubkey_cache.try_read_for(VALIDATOR_PUBKEY_CACHE_LOCK_TIMEOUT)
sig_pubkey_try_read(t) ==
    /\ pc[t] \in {"agg_signature", "unagg_signature"}
    /\ IF CanRead("validator_pubkey_cache")
       THEN /\ held' = [held EXCEPT ![t] = Append(@, "validator_pubkey_cache")]
            /\ Goto(t, "sig_head")
            /\ UNCHANGED <<slash_info, sig_verified>>
       ELSE SignatureStageFails(t, BeaconChainError("ValidatorPubkeyCacheLockTimeout"))
    /\ UNCHANGED <<msg, indexed, per_slot, attester_index, result, caches,
                   shuffling_cache, environment, node_holds, local_state,
                   slasher_accepted, history>>

\* Faulty variant of the second acquisition of the signature stage: the
\* public keys are let go and taken again under the head lock.
sig_head_try_read_then_pubkeys(t) ==
    /\ pc[t] = "sig_head"
    /\ CanRead("canonical_head")
    /\ held' = [held EXCEPT ![t] = <<"canonical_head", "validator_pubkey_cache">>]
    /\ Goto(t, "sig_fork")
    /\ UNCHANGED <<slash_info, sig_verified>>
    /\ UNCHANGED <<msg, indexed, per_slot, attester_index, result, caches,
                   shuffling_cache, environment, node_holds, local_state,
                   slasher_accepted, history>>

\* For aggregates the length test of the public key cache, then
\* chain.canonical_head.try_read_for(HEAD_LOCK_TIMEOUT)
sig_head_try_read(t) ==
    /\ pc[t] = "sig_head"
    /\ IF /\ msg[t].kind = "aggregate"
          /\ msg[t].aggregator_index >= beacon_chain.pubkey_cache_len
       THEN SignatureStageFails(t, <<"AggregatorPubkeyUnknown", msg[t].aggregator_index>>)
       ELSE IF CanRead("canonical_head")
       THEN /\ held' = [held EXCEPT ![t] = Append(@, "canonical_head")]
            /\ Goto(t, "sig_fork")
            /\ UNCHANGED <<slash_info, sig_verified>>
       ELSE SignatureStageFails(t, BeaconChainError("CanonicalHeadLockTimeout"))
    /\ UNCHANGED <<msg, indexed, per_slot, attester_index, result, caches,
                   shuffling_cache, environment, node_holds, local_state,
                   slasher_accepted, history>>

\* The fork is read and the head lock dropped; the signature sets are built
\* and verified; the return drops the lock of the public keys.
sig_verify(t) ==
    /\ pc[t] = "sig_fork"
    /\ LET r == IF msg[t].kind = "aggregate"
                THEN AggSignatureStage(beacon_chain, msg[t], indexed[t])
                ELSE verify_attestation_signature(beacon_chain, indexed[t])
       IN  IF IsErr(r)
           THEN SignatureStageFails(t, r[2])
           ELSE /\ sig_verified' = [sig_verified EXCEPT ![t] = TRUE]
                /\ Goto(t, IF msg[t].kind = "aggregate"
                           THEN "agg_late_attestation" ELSE "unagg_late")
                /\ held' = [held EXCEPT ![t] = <<>>]
                /\ UNCHANGED slash_info
    /\ UNCHANGED <<msg, indexed, per_slot, attester_index, result, caches,
                   shuffling_cache, environment, node_holds, local_state,
                   slasher_accepted, history>>

\* The lock the call asks for next.
NextLock(t) ==
    CASE pc[t] \in {"map_lock", "map_insert"} -> "shuffling_cache"
      [] pc[t] \in {"agg_signature", "unagg_signature"} -> "validator_pubkey_cache"
      [] /\ pc[t] = "sig_head"
         /\ ~(/\ msg[t].kind = "aggregate"
              /\ msg[t].aggregator_index >= beacon_chain.pubkey_cache_len) ->
             "canonical_head"
      [] pc[t] \in {"agg_committee", "unagg_committee", "slash_committee"} -> "fork_choice"
      [] pc[t] \in {"agg_early_aggregator", "unagg_early"} /\ ReadsForkChoice(t) ->
             "fork_choice"
      [] OTHER -> "none"

\* Another thread of the node takes a lock for writing once its readers and
\* writers have let go of it; it matters when a call is about to ask for
\* the lock.
node_write_lock(lock) ==
    /\ node_holds = {}
    /\ HeldByCall(lock) = {}
    /\ \E t \in Calls : NextLock(t) = lock
    /\ node_holds' = {lock}
    /\ UNCHANGED <<pc, msg, locals, slash_info, result, caches, shuffling_cache,
                   environment, held, local_state, slasher_accepted, history>>

node_unlock ==
    /\ node_holds # {}
    /\ node_holds' = {}
    /\ UNCHANGED <<pc, msg, locals, slash_info, result, caches, shuffling_cache,
                   environment, held, local_state, slasher_accepted, history>>

\* A public key cache that lacks validator 2.
ShortChain == [DefaultChain EXCEPT !.pubkey_cache_len = 2]

\* A clock that has moved on to slot 8.
LateChain ==
    [DefaultChain EXCEPT !.now_with_future_tolerance = Some(8),
                         !.now_with_past_tolerance = Some(8)]

LockChains == {ShortChain, LateChain}

LockAggregateMessages ==
    { Agg(0, X4, 0, T, T),                                   \* valid
      Agg(2, X1, 0, T, T),                                   \* no public key of aggregator 2
      Agg(0, X4, 0, T, F),                                   \* envelope signature invalid
      Agg(0, Att(2, 0, "A", 1, "Z", <<T, T>>, {0, 2}), 0, T, T), \* target unknown
      Agg(0, Att(6, 0, "A", 3, "A", <<T, T>>, {0, 2}), 0, T, T), \* state two epochs behind
      Agg(0, Att(8, 0, "A", 4, "C", <<T, T>>, {0, 2}), 0, T, T) } \* state cannot advance

LockUnaggregatedMessages ==
    { Unagg(X4, 0),                                          \* valid, validator 0
      Unagg(X2, 0),                                          \* no public key of validator 2
      Unagg(Att(2, 1, "A", 1, "A", <<T, F>>, {2}), 1),       \* no committee 1
      Unagg(Att(1, 0, "A", 0, "B", <<T, F>>, {1}), 1),       \* valid, state one epoch ahead
      Unagg(Att(1, 0, "A", 0, "C", <<T, F>>, {1}), 1) }      \* state two epochs ahead

LockMessages == LockAggregateMessages \cup LockUnaggregatedMessages

\* The calls that have been entered and have not returned.
InFlight == {c \in Calls : pc[c] \notin {"idle", "done"}}

InitLocks ==
    /\ pc = [t \in Calls |-> "idle"]
    /\ msg = [t \in Calls |-> NoMsg]
    /\ indexed = [t \in Calls |-> NoIndexed]
    /\ per_slot = [t \in Calls |-> 0]
    /\ attester_index = [t \in Calls |-> 0]
    /\ sig_verified = [t \in Calls |-> FALSE]
    /\ slash_info = [t \in Calls |-> NoSlashInfo]
    /\ result = [t \in Calls |-> NoResult]
    /\ observed_attestations = EmptyBag
    /\ observed_aggregators = EmptyBag
    /\ observed_attesters = EmptyBag
    /\ shuffling_cache = <<>>
    /\ slasher \in BOOLEAN
    /\ beacon_chain \in LockChains
    /\ slasher_accepted = [t \in Calls |-> <<>>]
    /\ wrote = [t \in Calls |-> {}]
    /\ started_after = [t \in Calls |-> {}]
    /\ held = [t \in Calls |-> <<>>]
    /\ node_holds = {}
    /\ local_state = [t \in Calls |-> NoState]
    /\ ValidatorClientInit

\* At most two calls are in flight at a time.
NextLocks ==
    \/ \E t \in Calls :
        \/ \E m \in LockMessages :
               /\ \A c \in Calls : c < t => pc[c] = "done"
               /\ verify(t, m)
        \/ agg_verify_early_checks_attestation(t)
        \/ /\ ReadsForkChoice(t) => CanRead("fork_choice")
           /\ agg_verify_early_checks_aggregator(t)
        \/ /\ ReadsForkChoice(t) => CanRead("fork_choice")
           /\ unagg_verify_early_checks(t)
        \/ map_get_block(t)
        \/ map_try_write(t)
        \/ map_lookup(t)
        \/ map_hit(t)
        \/ map_state_read(t)
        \/ map_per_slot_processing(t)
        \/ map_build_committee_cache(t)
        \/ map_insert_try_write(t)
        \/ map_insert(t)
        \/ map_local(t)
        \/ unagg_verify_middle_checks(t)
        \/ sig_pubkey_try_read(t)
        \/ sig_head_try_read(t)
        \/ sig_verify(t)
        \/ agg_verify_late_checks_attestation(t)
        \/ agg_verify_late_checks_aggregator(t)
        \/ unagg_verify_late_checks(t)
        \/ process_slash_info_arms(t)
    \/ \E lock \in Locks : node_write_lock(lock)
    \/ node_unlock

SpecLocks == InitLocks /\ [][NextLocks]_vars

-----------------------------------------------------------------------------
(* Vocabulary of the properties *)

Started(t) == pc[t] # "idle"

Done(t) == pc[t] = "done"

ReturnedOk(t) == Done(t) /\ IsOk(result[t])

ReturnedErr(t) == Done(t) /\ IsErr(result[t])

\* The call returned one of the three "already known" errors.
ReturnedAlreadyKnown(t) ==
    /\ ReturnedErr(t)
    /\ result[t][2][1] \in {"AttestationAlreadyKnown", "AggregatorAlreadyKnown",
                            "PriorAttestationKnown"}

IsAggregate(t) == Started(t) /\ msg[t].kind = "aggregate"

IsUnaggregated(t) == Started(t) /\ msg[t].kind = "unaggregated"

\* Call b was entered after call a had returned.
After(a, b) == a \in started_after[b]

\* Neither call was entered after the other had returned.
Overlap(a, b) == a # b /\ ~After(a, b) /\ ~After(b, a)

\* Committee resolution against the store alone (what an empty shuffling
\* cache yields), with the map_fn of each caller.
ResolveObtain(att) ==
    LET found == ShufflingLookup(att, <<>>)
    IN  IF IsErr(found) THEN found
        ELSE LET cache == BuildCommitteeCache(att, found[2]) IN
             IF IsErr(cache) THEN cache ELSE ObtainWithCommittee(cache[2], att)

ResolveAggregate(m) ==
    LET found == ShufflingLookup(m.aggregate, <<>>)
    IN  IF IsErr(found) THEN found
        ELSE LET cache == BuildCommitteeCache(m.aggregate, found[2]) IN
             IF IsErr(cache) THEN cache
             ELSE AggregateWithCommittee(cache[2], m)

\* Every check and signature of m passes when nothing has been observed.
PassesEveryCheck(m) ==
    IF m.kind = "aggregate"
    THEN /\ IsOk(AggEarlyChecksAttestation(m, EmptyBag, DefaultChain))
         /\ IsOk(AggEarlyChecksAggregator(m, EmptyBag))
         /\ IsOk(ResolveAggregate(m))
         /\ IsOk(AggSignatureStage(DefaultChain, m, ResolveAggregate(m)[2]))
    ELSE /\ IsOk(UnaggEarlyChecks(m.aggregate, DefaultChain))
         /\ IsOk(ResolveObtain(m.aggregate))
         /\ IsOk(UnaggMiddleChecks(m, ResolveObtain(m.aggregate)[2][1],
                                   ResolveObtain(m.aggregate)[2][2], EmptyBag))
         /\ IsOk(verify_attestation_signature(DefaultChain, ResolveObtain(m.aggregate)[2][1]))

FullyValidMessages == {m \in Messages : PassesEveryCheck(m)}

FullyValid(m) == m \in FullyValidMessages

\* The aggregate's committee resolves and its three signatures verify.
HasValidSignatures(m) ==
    /\ m.kind = "aggregate"
    /\ IsOk(ResolveObtain(m.aggregate))
    /\ verify_signed_aggregate_signatures(DefaultChain, m, ResolveObtain(m.aggregate)[2][1]) = Ok(TRUE)

SignatureValidAggregates == {m \in Messages : HasValidSignatures(m)}

SignatureValidAggregate(m) == m \in SignatureValidAggregates

\* The indexed attestation of a message whose committee resolves.
IndexedOf == [m \in SignatureValidAggregates |-> ResolveObtain(m.aggregate)[2][1]]

\* The observation-cache entries a message stands for.
KeysOf(m) ==
    IF m.kind = "aggregate"
    THEN {<<"observed_attestations", tree_hash_root(m.aggregate)>>,
          <<"observed_aggregators", <<m.aggregate.data.target.epoch, m.aggregator_index>>>>}
    ELSE IF IsOk(ResolveObtain(m.aggregate))
    THEN LET ia == ResolveObtain(m.aggregate)[2][1] IN
         {<<"observed_attesters", <<m.aggregate.data.target.epoch, ia.attesting_indices[i]>>>> :
              i \in DOMAIN ia.attesting_indices}
    ELSE {}

ConflictingPairs == {<<m1, m2>> \in Messages \X Messages : KeysOf(m1) \cap KeysOf(m2) # {}}

SameKeysPairs == {<<m1, m2>> \in Messages \X Messages : KeysOf(m1) = KeysOf(m2)}

Conflicts(m1, m2) == <<m1, m2>> \in ConflictingPairs

\* No bag holds an entry twice.
NoDuplicate(bag) == \A e \in BagToSet(bag) : CopiesIn(e, bag) = 1

\* The inserts the calls recorded are exactly the contents of the caches.
CachesAreWhatCallsWrote ==
    /\ \A e \in BagToSet(observed_attestations) :
           CopiesIn(e, observed_attestations) =
               Cardinality({t \in Calls : <<"observed_attestations", e>> \in wrote[t]})
    /\ \A e \in BagToSet(observed_aggregators) :
           CopiesIn(e, observed_aggregators) =
               Cardinality({t \in Calls : <<"observed_aggregators", e>> \in wrote[t]})
    /\ \A e \in BagToSet(observed_attesters) :
           CopiesIn(e, observed_attesters) =
               Cardinality({t \in Calls : <<"observed_attesters", e>> \in wrote[t]})
    /\ \A t \in Calls : \A w \in wrote[t] :
           CASE w[1] = "observed_attestations" -> BagIn(w[2], observed_attestations)
             [] w[1] = "observed_aggregators" -> BagIn(w[2], observed_aggregators)
             [] w[1] = "observed_attesters" -> BagIn(w[2], observed_attesters)

-----------------------------------------------------------------------------
(* C1 *)

\* Calls a and b verified the same fully valid message at the same time, and
\* no other call touched the entries of that message.
RacedOnSameMessage(a, b) ==
    /\ Done(a) /\ Done(b)
    /\ Overlap(a, b)
    /\ msg[a] = msg[b]
    /\ FullyValid(msg[a])
    /\ \A c \in Calls \ {a, b} : Started(c) => ~Conflicts(msg[c], msg[a])

\* C1: when two verifications of the same otherwise valid message overlap,
\* exactly one returns Ok, the other returns AttestationAlreadyKnown,
\* AggregatorAlreadyKnown or PriorAttestationKnown, and no observation cache
\* holds an entry twice.
C1_ExactlyOneWinner ==
    \A a, b \in Calls :
        RacedOnSameMessage(a, b) =>
            /\ \/ ReturnedOk(a) /\ ReturnedAlreadyKnown(b)
               \/ ReturnedOk(b) /\ ReturnedAlreadyKnown(a)
            /\ NoDuplicate(observed_attestations)
            /\ NoDuplicate(observed_aggregators)
            /\ NoDuplicate(observed_attesters)

\* Two overlapping calls on one valid unaggregated attestation both passed
\* signature verification before either observed the attester.
C1_Witness ==
    \E a, b \in Calls :
        /\ RacedOnSameMessage(a, b)
        /\ IsUnaggregated(a)
        /\ sig_verified[a] /\ sig_verified[b]
        /\ ReturnedOk(a) /\ ReturnedAlreadyKnown(b)

-----------------------------------------------------------------------------
(* C2 *)

\* The observed-attesters entry of a call that returned Ok.
AttesterKey(t) ==
    <<msg[t].aggregate.data.target.epoch,
      Head(result[t][2].indexed_attestation.attesting_indices)>>

\* C2: at most one verify_unaggregated call returns Ok for a pair of target
\* epoch and attesting validator, whatever the data of the attestations;
\* observed-attesters holds no pair twice, and every pair it holds is the pair
\* of a call that returned Ok.
C2_OneAttestationPerAttester ==
    /\ \A a, b \in Calls :
           (a # b /\ IsUnaggregated(a) /\ IsUnaggregated(b)
                  /\ ReturnedOk(a) /\ ReturnedOk(b))
               => AttesterKey(a) # AttesterKey(b)
    /\ NoDuplicate(observed_attesters)
    /\ \A e \in BagToSet(observed_attesters) :
           \E t \in Calls : IsUnaggregated(t) /\ ReturnedOk(t) /\ AttesterKey(t) = e

\* Two attestations with different data of one validator in one target epoch
\* both passed signature verification; one was accepted and the other lost in
\* the late check.
C2_Witness ==
    \E a, b \in Calls :
        /\ IsUnaggregated(a) /\ IsUnaggregated(b)
        /\ msg[a].aggregate.data # msg[b].aggregate.data
        /\ <<msg[a], msg[b]>> \in SameKeysPairs
        /\ ReturnedOk(a)
        /\ ReturnedErr(b) /\ sig_verified[b]

-----------------------------------------------------------------------------
(* C3 *)

AggregatorKey(t) == <<msg[t].aggregate.data.target.epoch, msg[t].aggregator_index>>

\* C3: at most one verify_aggregate call returns Ok for a pair of target
\* epoch and aggregator index, even for distinct aggregates; observed-
\* aggregators holds no pair twice.
C3_OneAggregatePerAggregator ==
    /\ \A a, b \in Calls :
           (a # b /\ IsAggregate(a) /\ IsAggregate(b)
                  /\ ReturnedOk(a) /\ ReturnedOk(b))
               => AggregatorKey(a) # AggregatorKey(b)
    /\ NoDuplicate(observed_aggregators)

\* Two distinct aggregates of one aggregator both passed signature
\* verification; one was accepted, the other lost when observing the
\* aggregator.
C3_Witness ==
    \E a, b \in Calls :
        /\ IsAggregate(a) /\ IsAggregate(b)
        /\ msg[a].aggregate # msg[b].aggregate
        /\ AggregatorKey(a) = AggregatorKey(b)
        /\ ReturnedOk(a)
        /\ ReturnedErr(b) /\ sig_verified[b]
        /\ result[b][2][1] = "PriorAttestationKnown"

-----------------------------------------------------------------------------
(* C4 *)

\* C4: once a verify call on m has returned Ok, every call on the same m that
\* is entered later returns AttestationAlreadyKnown, AggregatorAlreadyKnown
\* or PriorAttestationKnown.
C4_AcceptedThenAlreadyKnown ==
    \A a, b \in Calls :
        (After(a, b) /\ msg[a] = msg[b] /\ ReturnedOk(a) /\ Done(b))
            => ReturnedAlreadyKnown(b)

\* An aggregate was accepted, and a later call on the same aggregate returned.
C4_Witness ==
    \E a, b \in Calls :
        /\ After(a, b) /\ msg[a] = msg[b]
        /\ IsAggregate(a)
        /\ ReturnedOk(a) /\ Done(b)

-----------------------------------------------------------------------------
(* C5 *)

\* Nothing that touches the entries of call a's message was entered before
\* call a returned.
Fresh(a) ==
    \A c \in Calls \ {a} :
        (Started(c) /\ Conflicts(msg[c], msg[a])) => After(a, c)

\* C5: the first verify_unaggregated call on a fresh, fully valid attestation
\* returns Ok, and a second identical call returns PriorAttestationKnown with
\* the sole attesting index of the indexed attestation and the target epoch.
C5_SecondIdenticalUnaggregated ==
    \A a \in Calls :
        /\ (Done(a) /\ IsUnaggregated(a) /\ FullyValid(msg[a]) /\ Fresh(a))
               => /\ ReturnedOk(a)
                  /\ Len(result[a][2].indexed_attestation.attesting_indices) = 1
        /\ \A b \in Calls :
               (IsUnaggregated(a) /\ ReturnedOk(a) /\ After(a, b)
                    /\ msg[b] = msg[a] /\ Done(b))
                   => result[b] =
                          Err(<<"PriorAttestationKnown",
                                result[a][2].indexed_attestation.attesting_indices[1],
                                msg[a].aggregate.data.target.epoch>>)

\* A fresh valid unaggregated attestation was accepted and a second identical
\* call, entered after the first returned, has returned too.
C5_Witness ==
    \E a, b \in Calls :
        /\ IsUnaggregated(a) /\ FullyValid(msg[a]) /\ Fresh(a)
        /\ ReturnedOk(a)
        /\ After(a, b) /\ msg[b] = msg[a] /\ Done(b)

-----------------------------------------------------------------------------
(* C6 *)

\* Call a accepted an aggregate; call b, entered after a returned, verified a
\* distinct fully valid aggregate of the same aggregator and target epoch, and
\* no third call verified b's attestation.
SecondAggregateOfAggregator(a, b) ==
    /\ After(a, b)
    /\ ReturnedOk(a) /\ Done(b)
    /\ IsAggregate(a) /\ IsAggregate(b)
    /\ msg[a].aggregate # msg[b].aggregate
    /\ AggregatorKey(a) = AggregatorKey(b)
    /\ FullyValid(msg[a]) /\ FullyValid(msg[b])
    /\ \A c \in Calls \ {a, b} :
           IsAggregate(c) => msg[c].aggregate # msg[b].aggregate

\* C6 as stated: the second call returns PriorAttestationKnown{A, E}.
C6_SecondReturnsPriorAttestationKnown ==
    \A a, b \in Calls :
        SecondAggregateOfAggregator(a, b)
            => result[b] = Err(<<"PriorAttestationKnown", msg[b].aggregator_index,
                                 msg[b].aggregate.data.target.epoch>>)

\* C6 amended: the first call on a fresh fully valid aggregate returns Ok and
\* the second, entered after the first returned, returns
\* AggregatorAlreadyKnown(A) from its early checks.
C6_SecondReturnsAggregatorAlreadyKnown ==
    \A a \in Calls :
        /\ (Done(a) /\ IsAggregate(a) /\ FullyValid(msg[a]) /\ Fresh(a))
               => ReturnedOk(a)
        /\ \A b \in Calls :
               SecondAggregateOfAggregator(a, b)
                   => /\ result[b] = Err(<<"AggregatorAlreadyKnown",
                                           msg[b].aggregator_index>>)
                      /\ ~sig_verified[b]

C6_Witness ==
    \E a, b \in Calls : SecondAggregateOfAggregator(a, b) /\ Fresh(a)

-----------------------------------------------------------------------------
(* C7 *)

\* With a slasher attached, call b rejected a signature-valid aggregate whose
\* aggregator call a accepted with a distinct aggregate of the same epoch.
RejectedSecondAggregate(a, b) ==
    /\ slasher
    /\ ReturnedOk(a) /\ ReturnedErr(b)
    /\ IsAggregate(a) /\ IsAggregate(b)
    /\ msg[a].aggregate # msg[b].aggregate
    /\ AggregatorKey(a) = AggregatorKey(b)
    /\ SignatureValidAggregate(msg[b])

-----------------------------------------------------------------------------
(* C8 *)

\* C8: every root in observed-attestations is the root of an aggregate whose
\* verify_aggregate call returned Ok (or has not returned yet); a call that
\* failed leaves no entry.
C8_OnlyAcceptedAttestationsObserved ==
    \A root \in BagToSet(observed_attestations) :
        \E t \in Calls :
            /\ IsAggregate(t)
            /\ tree_hash_root(msg[t].aggregate) = root
            /\ (ReturnedOk(t) \/ ~Done(t))

-----------------------------------------------------------------------------
(* C9 *)

ReturnedInvalidSignature(t) ==
    ReturnedErr(t) /\ result[t][2] = <<"InvalidSignature">>

\* C9: a call that returns InvalidSignature has inserted nothing into
\* observed-attestations, observed-attesters or observed-aggregators: what
\* the caches hold is what the other calls inserted.
C9_InvalidSignatureWritesNothing ==
    /\ \A t \in Calls : ReturnedInvalidSignature(t) => wrote[t] = {}
    /\ CachesAreWhatCallsWrote

\* A call returned InvalidSignature while an overlapping call inserted into
\* the caches.
C9_Witness ==
    \E t, u \in Calls :
        /\ Overlap(t, u)
        /\ ReturnedInvalidSignature(t)
        /\ wrote[u] # {}

-----------------------------------------------------------------------------
(* C10 *)

\* The call failed before or in the signature stage.
FailedBeforeLateChecks(t) ==
    /\ pc[t] \in {"slash", "slash_miss", "done"}
    /\ slash_info[t][1] \in {"SignatureNotChecked", "SignatureNotCheckedIndexed",
                             "SignatureInvalid"}

\* C10: a call inserts into an observation cache only in steps taken after
\* its signature verification returned success, every change of a cache is
\* such an insert, and a call that fails in the early checks, the committee
\* resolution, the middle checks or the signature stage has inserted nothing.
C10_WritesOnlyAfterSignature ==
    /\ [][\A t \in Calls : wrote'[t] # wrote[t] => sig_verified[t]]_vars
    /\ [][caches' # caches =>
              \E t \in Calls : wrote'[t] # wrote[t] /\ sig_verified[t]]_vars
    /\ [](\A t \in Calls : FailedBeforeLateChecks(t) => wrote[t] = {})

\* One call has inserted into a cache after its signatures verified, another
\* has failed in the middle checks.
C10_Witness ==
    \E t, u \in Calls :
        /\ wrote[t] # {} /\ sig_verified[t]
        /\ Done(u) /\ slash_info[u][1] = "SignatureNotCheckedIndexed"

-----------------------------------------------------------------------------
(* C11 *)

\* C11: no step of any verify call, failing or not, takes an entry out of
\* observed-attestations, observed-aggregators or observed-attesters or
\* changes one: every cache after a step holds what it held before.
C11_ObservationIsMonotonic ==
    [][/\ observed_attestations \sqsubseteq observed_attestations'
       /\ observed_aggregators \sqsubseteq observed_aggregators'
       /\ observed_attesters \sqsubseteq observed_attesters']_vars

\* An aggregate was accepted, and an overlapping call that had inserted its
\* own attestation root failed afterwards; all entries are still there.
C11_Witness ==
    \E a, b \in Calls :
        /\ IsAggregate(a) /\ ReturnedOk(a)
        /\ IsAggregate(b) /\ ReturnedErr(b) /\ wrote[b] # {}
        /\ BagIn(tree_hash_root(msg[a].aggregate), observed_attestations)
        /\ BagIn(tree_hash_root(msg[b].aggregate), observed_attestations)
        /\ BagIn(AggregatorKey(a), observed_aggregators)

-----------------------------------------------------------------------------
(* C12 *)

\* The call invoked signature verification (verify_attestation_signature or
\* verify_signed_aggregate_signatures): it succeeded, or the call failed in
\* the signature stage.
SignatureAttempted(t) ==
    \/ sig_verified[t]
    \/ slash_info[t][1] = "SignatureInvalid"

\* The number of set aggregation bits of the call's attestation.
SetBits(t) == num_set_bits(msg[t].aggregate.aggregation_bits)

\* The slot of the call's attestation is in the propagation range.
InSlotRange(t) == IsOk(verify_propagation_slot_range(beacon_chain, msg[t].aggregate))

\* C12 as stated: every unaggregated attestation with n # 1 set bits gets
\* NotExactlyOneAggregationBitSet(n), and no signature verification.
C12_NotExactlyOneBitForEveryAttestation ==
    \A t \in Calls :
        (Done(t) /\ IsUnaggregated(t) /\ SetBits(t) # 1)
            => /\ result[t] = Err(<<"NotExactlyOneAggregationBitSet", SetBits(t)>>)
               /\ ~SignatureAttempted(t)

\* C12 amended: an unaggregated attestation with n # 1 set bits whose slot is
\* in the propagation range gets NotExactlyOneAggregationBitSet(n); whatever
\* its slot, its call never invokes signature verification.
C12_NotExactlyOneBitInSlotRange ==
    \A t \in Calls :
        (Started(t) /\ IsUnaggregated(t) /\ SetBits(t) # 1)
            => /\ ~SignatureAttempted(t)
               /\ pc[t] \notin {"unagg_signature", "unagg_late"}
               /\ (Done(t) /\ InSlotRange(t))
                      => result[t] = Err(<<"NotExactlyOneAggregationBitSet", SetBits(t)>>)

\* Calls on an attestation with two set bits and on one with none have both
\* returned, their slots being in range.
C12_Witness ==
    \E a, b \in Calls :
        /\ IsUnaggregated(a) /\ Done(a) /\ InSlotRange(a) /\ SetBits(a) = 2
        /\ IsUnaggregated(b) /\ Done(b) /\ InSlotRange(b) /\ SetBits(b) = 0

-----------------------------------------------------------------------------
(* C13 *)

\* The call has returned and no later call has been entered: the caches are
\* as the call left them.
Latest(t) == Done(t) /\ \A c \in Calls : c > t => pc[c] = "idle"

\* The committee of an attestation as the store yields it:
\* Ok(<<committee, committees_per_slot>>) or the error of the resolution.
ResolveCommittee(att) ==
    LET found == ShufflingLookup(att, <<>>) IN
    IF IsErr(found) THEN found
    ELSE LET cache == BuildCommitteeCache(att, found[2]) IN
         IF IsErr(cache) THEN cache ELSE WithCommittee(cache[2], att)

\* The committee of the aggregate resolves and the selection proof does not
\* elect the aggregator for its length.
NotElected(m) ==
    /\ IsOk(ResolveCommittee(m.aggregate))
    /\ ~is_aggregator(m.selection_proof, Len(ResolveCommittee(m.aggregate)[2][1]))

\* The early checks of an aggregate pass against the caches as they are.
AggEarlyChecksPass(t) ==
    /\ IsOk(AggEarlyChecksAttestation(msg[t], observed_attestations, beacon_chain))
    /\ IsOk(AggEarlyChecksAggregator(msg[t], observed_aggregators))

\* C13: a verify_aggregate call on an aggregate whose selection proof does
\* not elect its aggregator for the resolved committee never invokes
\* verify_signed_aggregate_signatures, and when its early checks pass, so
\* that the committee is resolved, it returns InvalidSelectionProof with the
\* aggregator index.
C13_InvalidSelectionProofBeforeSignatures ==
    \A t \in Calls :
        (IsAggregate(t) /\ NotElected(msg[t]))
            => /\ ~SignatureAttempted(t)
               /\ pc[t] \notin {"agg_signature", "agg_late_attestation",
                                "agg_late_aggregator"}
               /\ ~ReturnedOk(t)
               /\ (Latest(t) /\ AggEarlyChecksPass(t))
                      => result[t] =
                             Err(<<"InvalidSelectionProof", msg[t].aggregator_index>>)

\* Two aggregates with a non-electing selection proof have been rejected after
\* passing the early checks: one of a committee member, one of a validator
\* outside the committee with an invalid envelope signature.
C13_Witness ==
    \E a, b \in Calls :
        /\ IsAggregate(a) /\ NotElected(msg[a]) /\ Done(a)
        /\ IsAggregate(b) /\ NotElected(msg[b]) /\ Latest(b) /\ AggEarlyChecksPass(b)
        /\ ~msg[b].signature
        /\ result[a] = Err(<<"InvalidSelectionProof", 0>>)
        /\ result[b] = Err(<<"InvalidSelectionProof", 1>>)

-----------------------------------------------------------------------------
(* C14 *)

\* The call's attestation votes for a block that fork choice does not hold.
HeadUnknown(t) ==
    /\ Started(t)
    /\ get_block(msg[t].aggregate.data.beacon_block_root) = None

\* The checks that precede verify_head_block_is_known pass against the caches
\* as they are.
HeadCheckReached(t) ==
    IF msg[t].kind = "aggregate"
    THEN /\ IsOk(AggEarlyChecksAttestation(msg[t], observed_attestations, beacon_chain))
         /\ validator_has_been_observed(observed_aggregators, msg[t].aggregate,
                                        msg[t].aggregator_index) = Ok(FALSE)
    ELSE InSlotRange(t) /\ SetBits(t) = 1

\* A call whose head block is unknown returns UnknownHeadBlock with the root
\* (the checks before the head check passing).
HeadUnknownIsReported ==
    \A t \in Calls :
        (HeadUnknown(t) /\ Latest(t) /\ HeadCheckReached(t))
            => result[t] = Err(<<"UnknownHeadBlock",
                                 msg[t].aggregate.data.beacon_block_root>>)

\* call t takes a step
Steps(t) == pc'[t] # pc[t]

\* C14 as stated: a call whose head block is unknown returns UnknownHeadBlock
\* (the checks before the head check passing) and none of its steps changes
\* an observation cache or the shuffling cache, with or without a slasher.
C14_HeadUnknownMutatesNoCache ==
    /\ []HeadUnknownIsReported
    /\ [][\A t \in Calls :
              (HeadUnknown(t) /\ HeadCheckReached(t) /\ Steps(t))
                  => /\ caches' = caches
                     /\ shuffling_cache' = shuffling_cache]_vars

\* C14 amended: such a call returns UnknownHeadBlock, and no call with an
\* unknown head block changes an observation cache; it leaves the shuffling cache alone when no slasher is
\* attached, and with a slasher it at most adds the committee cache of its
\* own (attestation epoch, target root) where the shuffling cache had none.
C14_HeadUnknownMutatesNoObservationCache ==
    /\ []HeadUnknownIsReported
    /\ [][\A t \in Calls :
              (HeadUnknown(t) /\ Steps(t))
                  => /\ caches' = caches
                     /\ shuffling_cache' # shuffling_cache
                            => /\ slasher
                               /\ ShufflingKey(msg[t].aggregate) \notin DOMAIN shuffling_cache
                               /\ shuffling_cache' =
                                      ShufflingInsert(shuffling_cache,
                                          ShufflingKey(msg[t].aggregate),
                                          CommitteeCacheOf(Epoch(msg[t].aggregate.data.slot)))]_vars

\* With a slasher attached, the first call of a run had an unknown head block:
\* it returned and left its committee cache in the shuffling cache.
C14_Witness ==
    /\ slasher
    /\ HeadUnknown(1) /\ Latest(1) /\ HeadCheckReached(1)
    /\ shuffling_cache # <<>>
    /\ slasher_accepted[1] # <<>>

-----------------------------------------------------------------------------
(* C15 *)

\* The call returned the error of this name.
ReturnedError(t, name) == ReturnedErr(t) /\ result[t][2][1] = name

\* The head block of the call's attestation is known and the attestation is
\* more than import_max_skip_slots slots after it.
SkipsTooManySlots(t) ==
    LET block == get_block(msg[t].aggregate.data.beacon_block_root)
        limit == beacon_chain.import_max_skip_slots
    IN  /\ block # None
        /\ limit # None
        /\ msg[t].aggregate.data.slot > block[2].slot + limit[2]

\* C15: verify_unaggregated returns TooManySkippedSlots, with the slot of the
\* head block and the slot of the attestation, exactly when the slot-range
\* and one-bit checks pass, the head block is known, import_max_skip_slots is
\* Some(k) and the attestation slot exceeds the head block's slot by more
\* than k; verify_aggregate never returns TooManySkippedSlots.
C15_SkippedSlotsGuardOnlyUnaggregated ==
    \A t \in Calls :
        /\ (Done(t) /\ IsUnaggregated(t))
               => /\ ReturnedError(t, "TooManySkippedSlots")
                      <=> (InSlotRange(t) /\ SetBits(t) = 1 /\ SkipsTooManySlots(t))
                  /\ ReturnedError(t, "TooManySkippedSlots")
                      => result[t] =
                             Err(<<"TooManySkippedSlots",
                                   get_block(msg[t].aggregate.data.beacon_block_root)[2].slot,
                                   msg[t].aggregate.data.slot>>)
        /\ (Done(t) /\ IsAggregate(t)) => ~ReturnedError(t, "TooManySkippedSlots")

\* An unaggregated attestation was refused for its skipped slots and an
\* aggregate with the same data was accepted.
C15_Witness ==
    \E a, b \in Calls :
        /\ IsUnaggregated(a) /\ ReturnedError(a, "TooManySkippedSlots")
        /\ IsAggregate(b) /\ msg[b].aggregate = msg[a].aggregate
        /\ SkipsTooManySlots(b)
        /\ ReturnedOk(b)

-----------------------------------------------------------------------------
(* C16 *)

\* The slot of the call's attestation.
SlotOf(t) == msg[t].aggregate.data.slot

\* The clock readings of the run (both readable in every run of SpecSeq).
NowFuture == beacon_chain.now_with_future_tolerance[2]

NowPast == beacon_chain.now_with_past_tolerance[2]

\* C16: a call returns FutureSlot, with the attestation slot and now_future,
\* exactly for the slots after now_future; it returns PastSlot, with the
\* attestation slot and now_past - slots_per_epoch, exactly for the slots
\* before now_past - slots_per_epoch; the slots from now_past -
\* slots_per_epoch to now_future, both included, get neither.
C16_SlotRangeBoundaries ==
    \A t \in Calls :
        Done(t) =>
            /\ SlotOf(t) > NowFuture
                   => result[t] = Err(<<"FutureSlot", SlotOf(t), NowFuture>>)
            /\ (SlotOf(t) <= NowFuture /\ SlotOf(t) < NowPast - SlotsPerEpoch)
                   => result[t] = Err(<<"PastSlot", SlotOf(t), NowPast - SlotsPerEpoch>>)
            /\ (NowPast - SlotsPerEpoch <= SlotOf(t) /\ SlotOf(t) <= NowFuture)
                   => /\ ~ReturnedError(t, "FutureSlot")
                      /\ ~ReturnedError(t, "PastSlot")

\* An attestation at now_future was accepted and one a slot later was
\* refused with FutureSlot.
C16_Witness ==
    \E a, b \in Calls :
        /\ SlotOf(a) = NowFuture /\ ReturnedOk(a)
        /\ SlotOf(b) = NowFuture + 1
        /\ result[b] = Err(<<"FutureSlot", NowFuture + 1, NowFuture>>)

\* An attestation at now_past - slots_per_epoch was accepted and one a slot
\* earlier was refused with PastSlot.
PastBoundaryReached ==
    \E a, b \in Calls :
        /\ SlotOf(a) = NowPast - SlotsPerEpoch /\ ReturnedOk(a)
        /\ SlotOf(b) = NowPast - SlotsPerEpoch - 1
        /\ result[b] = Err(<<"PastSlot", SlotOf(b), NowPast - SlotsPerEpoch>>)

-----------------------------------------------------------------------------
(* C17 *)

\* The early checks of the call's unaggregated attestation pass and its
\* committee resolves.
ReachesSubnetCheck(t) ==
    /\ IsUnaggregated(t)
    /\ IsOk(UnaggEarlyChecks(msg[t].aggregate, beacon_chain))
    /\ IsOk(ResolveObtain(msg[t].aggregate))

\* The subnet of the protocol formula for the call's attestation:
\* (committees_per_slot * (slot mod slots_per_epoch) + index)
\*     mod attestation_subnet_count
ProtocolSubnet(t) ==
    LET data == msg[t].aggregate.data
        n == ResolveObtain(msg[t].aggregate)[2][2]
    IN  (n * (data.slot % SlotsPerEpoch) + data.index) % AttestationSubnetCount

\* C17: an unaggregated attestation that passes the early checks and whose
\* committee resolves gets InvalidSubnetId{received, expected}, expected
\* being the subnet of the protocol formula, for every subnet_id other than
\* that subnet, whether or not its attester has been observed and without
\* signature verification; on that subnet it is not refused for its subnet.
C17_SubnetBoundary ==
    \A t \in Calls :
        (Done(t) /\ ReachesSubnetCheck(t))
            => IF msg[t].subnet_id # ProtocolSubnet(t)
               THEN /\ result[t] = Err(<<"InvalidSubnetId", msg[t].subnet_id,
                                         ProtocolSubnet(t)>>)
                    /\ ~SignatureAttempted(t)
                    /\ slash_info[t][1] = "SignatureNotCheckedIndexed"
               ELSE ~ReturnedError(t, "InvalidSubnetId")

\* An attestation was accepted on its subnet, and the same attestation on
\* another subnet was refused for the subnet although its attester had been
\* observed by then.
C17_Witness ==
    \E a, b \in Calls :
        /\ After(a, b)
        /\ ReachesSubnetCheck(a) /\ ReturnedOk(a)
        /\ msg[b].aggregate = msg[a].aggregate
        /\ msg[b].subnet_id # msg[a].subnet_id
        /\ BagIn(AttesterKey(a), observed_attesters)
        /\ ReturnedError(b, "InvalidSubnetId")

-----------------------------------------------------------------------------
(* C18 *)

\* The positions of a call on the miss path of map_attestation_committee:
\* the state is loaded and the committee cache inserted there.
MissPositions == {"agg_committee_miss", "unagg_committee_miss", "slash_miss"}

\* The call has an indexed attestation from its committee resolution.
HasIndexed(t) == Started(t) /\ indexed[t] # NoIndexed

\* The two calls resolved the committee of the same attestation.
ResolvedSame(a, b) ==
    /\ HasIndexed(a) /\ HasIndexed(b)
    /\ msg[a].aggregate = msg[b].aggregate

\* C18: once the shuffling cache holds an entry for (attestation_epoch,
\* target.root), a call with that key does not enter the miss path, so it
\* neither loads a state nor inserts; calls that resolve the committee of the
\* same attestation get equal indexed attestations and committees_per_slot;
\* every step leaves the entries of the cache as they are and adds at most
\* one entry, for a key the cache did not hold.
C18_CommitteeResolutionIsIdempotent ==
    /\ [](\A a, b \in Calls :
            ResolvedSame(a, b)
                => /\ indexed[a] = indexed[b]
                   /\ (IsUnaggregated(a) /\ IsUnaggregated(b))
                          => per_slot[a] = per_slot[b])
    /\ [][/\ \A k \in DOMAIN shuffling_cache :
                /\ k \in DOMAIN shuffling_cache'
                /\ shuffling_cache'[k] = shuffling_cache[k]
          /\ Cardinality(DOMAIN shuffling_cache' \ DOMAIN shuffling_cache) <= 1
          /\ \A t \in Calls :
                (pc'[t] \in MissPositions /\ pc[t] \notin MissPositions)
                    => ShufflingKey(msg[t].aggregate) \notin DOMAIN shuffling_cache
          /\ shuffling_cache' # shuffling_cache
                => \E t \in Calls :
                      /\ pc[t] \in MissPositions /\ Steps(t)
                      /\ DOMAIN shuffling_cache' =
                             DOMAIN shuffling_cache
                                 \cup {ShufflingKey(msg[t].aggregate)}]_vars

\* A call resolved the committee of an attestation from the store and left
\* the entry in the cache; a later call for the same attestation returned with
\* an equal indexed attestation while the cache holds that one entry.
C18_Witness ==
    \E a, b \in Calls :
        /\ After(a, b)
        /\ ResolvedSame(a, b)
        /\ indexed[a] = indexed[b]
        /\ indexed[a].attesting_indices # <<>>
        /\ DOMAIN shuffling_cache = {ShufflingKey(msg[a].aggregate)}
        /\ Done(b)

-----------------------------------------------------------------------------
(* C19 *)

SlashInfoVariants ==
    {"SignatureNotChecked", "SignatureNotCheckedIndexed", "SignatureInvalid",
     "SignatureValid"}

\* The call failed with a slash info of the variant.
FailedAs(t, variant) == ReturnedErr(t) /\ slash_info[t][1] = variant

\* The committee resolution process_slash_info makes for the call's
\* attestation fails.
SlasherResolutionFails(t) == IsErr(ResolveObtain(msg[t].aggregate))

\* C19: a failing verify returns the error its slash info carries, whichever
\* of the four variants it is and with or without a slasher; a
\* SignatureNotChecked entry whose committee resolution fails for the slasher
\* is forwarded to no one, and the original error is returned.
C19_VerifyReturnsTheSlashInfoError ==
    \A t \in Calls :
        ReturnedErr(t)
            => /\ slash_info[t][1] \in SlashInfoVariants
               /\ result[t] = Err(SlashError(slash_info[t]))
               /\ (FailedAs(t, "SignatureNotChecked") /\ SlasherResolutionFails(t))
                      => slasher_accepted[t] = <<>>

\* With a slasher, an attestation refused before its committee was resolved
\* has an unknown target: the resolution for the slasher fails with another
\* error than the one returned, and the slasher gets nothing.
C19_Witness ==
    \E t \in Calls :
        /\ slasher
        /\ FailedAs(t, "SignatureNotChecked")
        /\ SlasherResolutionFails(t)
        /\ ResolveObtain(msg[t].aggregate) # result[t]
        /\ slasher_accepted[t] = <<>>

\* A call failed with the variant, with or without a slasher.
VariantReturned(variant, with_slasher) ==
    \E t \in Calls : slasher = with_slasher /\ FailedAs(t, variant)

-----------------------------------------------------------------------------
(* C20 *)

\* What the slasher is owed for a returned call: the indexed attestations
\* process_slash_info forwards, in order.
Forwarded(t) ==
    IF ~slasher \/ ReturnedOk(t) THEN <<>>
    ELSE CASE slash_info[t][1] = "SignatureNotCheckedIndexed" -> <<slash_info[t][2]>>
           [] slash_info[t][1] = "SignatureValid" -> <<slash_info[t][2]>>
           [] slash_info[t][1] = "SignatureInvalid" -> <<>>
           [] slash_info[t][1] = "SignatureNotChecked" ->
                  IF SlasherResolutionFails(t) THEN <<>>
                  ELSE <<ResolveObtain(msg[t].aggregate)[2][1]>>

\* C20: with a slasher, a failing verify hands the slasher one indexed
\* attestation when the failure is SignatureNotCheckedIndexed, SignatureValid
\* or SignatureNotChecked with a committee that resolves, and none when it is
\* SignatureInvalid or SignatureNotChecked with a committee that does not
\* resolve; a call that returns Ok, a call that has not returned and every
\* call without a slasher hand it nothing.
C20_SlasherCallCount ==
    \A t \in Calls :
        IF Done(t)
        THEN slasher_accepted[t] = Forwarded(t)
        ELSE slasher_accepted[t] = <<>>

\* With a slasher: one call failed before its signature was checked and its
\* attestation reached the slasher once, another failed on its signature and
\* the slasher got nothing.
C20_Witness ==
    \E a, b \in Calls :
        /\ slasher
        /\ FailedAs(a, "SignatureNotChecked") /\ Len(slasher_accepted[a]) = 1
        /\ FailedAs(b, "SignatureInvalid") /\ slasher_accepted[b] = <<>>

-----------------------------------------------------------------------------
(* C21: lock order *)

\* The place of a lock in the order public key cache, canonical head,
\* shuffling cache, observation caches.
LockRank(lock) ==
    CASE lock = "validator_pubkey_cache" -> 1
      [] lock = "canonical_head" -> 2
      [] lock = "shuffling_cache" -> 3
      [] lock = "observation_caches" -> 4

\* The statement the call is at queries or writes an observation cache, whose
\* lock is taken and dropped inside that statement.
TouchesObservationCaches(t) ==
    pc[t] \in {"agg_early", "agg_early_aggregator", "agg_late_attestation",
               "agg_late_aggregator", "unagg_middle", "unagg_late"}

\* The locks the call holds when its next statement has taken its lock, in
\* the order it took them.
TakenBy(t) ==
    IF TouchesObservationCaches(t)
    THEN Append(held[t], "observation_caches")
    ELSE held[t]

\* A step of the call.
CallStep(t) ==
    \/ agg_verify_early_checks_attestation(t)
    \/ /\ ReadsForkChoice(t) => CanRead("fork_choice")
       /\ agg_verify_early_checks_aggregator(t)
    \/ /\ ReadsForkChoice(t) => CanRead("fork_choice")
       /\ unagg_verify_early_checks(t)
    \/ map_get_block(t)
    \/ map_try_write(t)
    \/ map_lookup(t)
    \/ map_hit(t)
    \/ map_state_read(t)
    \/ map_per_slot_processing(t)
    \/ map_build_committee_cache(t)
    \/ map_insert_try_write(t)
    \/ map_insert(t)
    \/ map_local(t)
    \/ unagg_verify_middle_checks(t)
    \/ sig_pubkey_try_read(t)
    \/ sig_head_try_read(t)
    \/ sig_verify(t)
    \/ agg_verify_late_checks_attestation(t)
    \/ agg_verify_late_checks_aggregator(t)
    \/ unagg_verify_late_checks(t)
    \/ process_slash_info_arms(t)

-----------------------------------------------------------------------------
(* C22: lock timeouts *)

\* The locks that are asked for with a timeout.
TimedLocks == {"shuffling_cache", "validator_pubkey_cache", "canonical_head"}

\* The error that names the lock.
TimeoutError(lock) ==
    CASE lock = "shuffling_cache" -> BeaconChainError("AttestationCacheLockTimeout")
      [] lock = "validator_pubkey_cache" ->
             BeaconChainError("ValidatorPubkeyCacheLockTimeout")
      [] lock = "canonical_head" -> BeaconChainError("CanonicalHeadLockTimeout")

\* The call asks for the lock next and does not get it.
Refused(t, lock) ==
    /\ NextLock(t) = lock
    /\ IF lock = "shuffling_cache" THEN ~CanWrite(lock) ELSE ~CanRead(lock)

\* The call is on its way to return the timeout of the lock, or has returned
\* it.
TimeoutReported(t, lock) ==
    IF Done(t)
    THEN result[t] = Err(TimeoutError(lock))
    ELSE pc[t] = "slash" /\ SlashError(slash_info[t]) = TimeoutError(lock)

\* The call failed in verify_slashable with the timeout of a lock.
FailedOnTimeout(t) ==
    /\ InProcessSlashInfo(t)
    /\ \E lock \in TimedLocks : SlashError(slash_info[t]) = TimeoutError(lock)

\* A call that failed with a timeout returns it and has written nothing to
\* the observation caches.
TimeoutsAreReturned ==
    \A t \in Calls :
        FailedOnTimeout(t) =>
            /\ wrote[t] = {}
            /\ Done(t) => result[t] = Err(SlashError(slash_info[t]))

\* C22 as stated: whenever the shuffling cache, the public key cache or the
\* canonical head is refused to a call, the call returns the internal error
\* that names the lock and writes nothing to the observation caches; and a
\* call that asks for any lock can always go on, with the lock or with a
\* timeout.
C22_EveryTimeoutIsReturned ==
    /\ [][\A t \in Calls : \A lock \in TimedLocks :
              Refused(t, lock) /\ pc'[t] # pc[t] => TimeoutReported(t, lock)']_vars
    /\ [](TimeoutsAreReturned)
    /\ [](\A t \in InFlight : NextLock(t) # "none" => ENABLED CallStep(t))

\* C22: whenever the shuffling cache, the public key cache or the canonical
\* head is refused to a call inside verify_slashable, the call returns the
\* internal error that names the lock and writes nothing to the observation
\* caches; a refusal of the shuffling cache inside process_slash_info makes
\* the call return the error verify_slashable ended with; a call that asks
\* for one of these three locks can always go on, with the lock or with a
\* timeout, while a call that asks for fork choice waits for its writer.
C22_TimeoutInVerifySlashableIsReturned ==
    /\ [][\A t \in Calls : \A lock \in TimedLocks :
              Refused(t, lock) /\ pc'[t] # pc[t] =>
                  IF InProcessSlashInfo(t)
                  THEN /\ Done(t)'
                       /\ result'[t] = Err(SlashError(slash_info[t]))
                       /\ wrote'[t] = wrote[t]
                  ELSE TimeoutReported(t, lock)']_vars
    /\ [](TimeoutsAreReturned)
    /\ [](\A t \in InFlight :
              /\ NextLock(t) \in TimedLocks => ENABLED CallStep(t)
              /\ Refused(t, "fork_choice") => ~ENABLED CallStep(t))

\* One call has returned the timeout of the shuffling cache, another the
\* timeout of the canonical head, and neither has written to an observation
\* cache.
C22_Witness ==
    \E a, b \in Calls :
        /\ Done(a) /\ result[a] = Err(TimeoutError("shuffling_cache"))
        /\ Done(b) /\ result[b] = Err(TimeoutError("canonical_head"))
        /\ wrote[a] = {} /\ wrote[b] = {}

-----------------------------------------------------------------------------
(* C23: what SignatureInvalid stands for *)

\* C23: a call is classified SignatureInvalid only when its signatures were
\* checked and found invalid, that is with the error InvalidSignature; a
\* missing aggregator public key, a lock timeout and a failure to build the
\* signature sets are not classified SignatureInvalid.
C23_SignatureInvalidMeansChecked ==
    \A t \in Calls :
        InProcessSlashInfo(t) /\ slash_info[t][1] = "SignatureInvalid" =>
            SlashError(slash_info[t]) = <<"InvalidSignature">>

-----------------------------------------------------------------------------
(* C24: the slash info of a stage *)

\* The stages of verify_slashable that fail with the variant.
StagesOf(variant) ==
    CASE variant = "SignatureNotChecked" ->
             {"agg_early", "agg_early_aggregator", "agg_committee",
              "agg_committee_miss", "unagg_early", "unagg_committee",
              "unagg_committee_miss"}
      [] variant = "SignatureNotCheckedIndexed" -> {"unagg_middle"}
      [] variant = "SignatureInvalid" -> {"agg_signature", "unagg_signature"}
      [] variant = "SignatureValid" ->
             {"agg_late_attestation", "agg_late_aggregator", "unagg_late"}

\* verify_slashable of the call fails in this step.
FailsNow(t) == pc[t] # "slash" /\ pc'[t] = "slash"

\* C24: a call that fails in the early checks or the committee resolution,
\* with InvalidSelectionProof and AggregatorNotInCommittee among its errors,
\* is classified SignatureNotChecked with the attestation as it came; one
\* that fails in the middle checks SignatureNotCheckedIndexed with the
\* indexed attestation; one that fails in the late checks SignatureValid
\* with the indexed attestation; and SignatureValid is given only to a call
\* whose signature verification has returned success.
C24_VariantFollowsStage ==
    /\ [][\A t \in Calls : FailsNow(t) =>
              LET si == slash_info'[t] IN
              /\ pc[t] \in StagesOf(si[1])
              /\ si[1] = "SignatureNotChecked" => si[2] = msg[t].aggregate
              /\ si[1] \in {"SignatureNotCheckedIndexed", "SignatureValid"} =>
                     si[2] = indexed[t] /\ indexed[t] # NoIndexed
              /\ si[3][1] \in {"InvalidSelectionProof", "AggregatorNotInCommittee"} =>
                     si[1] = "SignatureNotChecked"
              /\ si[1] = "SignatureValid" => sig_verified[t]]_vars
    /\ [](\A t \in Calls :
              slash_info[t][1] = "SignatureValid" => sig_verified[t])

\* A call has failed in the late checks after its signatures verified and
\* is classified SignatureValid with its indexed attestation.
C24_Witness ==
    \E t \in Calls :
        /\ FailedAs(t, "SignatureValid")
        /\ sig_verified[t]
        /\ slash_info[t][2] = indexed[t]

-----------------------------------------------------------------------------
(* C25, C26: the order of the checks *)

\* The name of the first check of the list that is violated, "none" without
\* one; a check is a pair of a condition and a name.
FirstViolated(checks) ==
    LET violated == {i \in DOMAIN checks : checks[i][1]} IN
    IF violated = {} THEN "none"
    ELSE checks[CHOOSE i \in violated : \A j \in violated : i <= j][2]

\* The committee of the attestation's slot and index in the shuffling of its
\* target, None without a target block or a committee.
CommitteeFor(att) ==
    IF get_block(att.data.target.root) = None THEN None
    ELSE get_beacon_committee(CommitteeCacheOf(Epoch(att.data.slot)),
                              att.data.slot, att.data.index)

\* The indexed attestation, NoIndexed when there is no committee to index it
\* with or its bits do not fit the committee.
IndexedFor(att) ==
    IF /\ CommitteeFor(att) # None
       /\ Len(att.aggregation_bits) = Len(CommitteeFor(att)[2])
    THEN get_indexed_attestation(CommitteeFor(att)[2], att)[2]
    ELSE NoIndexed

\* The name of an error.
ErrorName(r) == r[2][1]

\* The checks of verify_aggregate in the order of C25, each one taken on its
\* own against the message, the clock, fork choice and the observation caches.
AggregateChecks(m, attestations, aggregators) ==
    LET att == m.aggregate
        committee == CommitteeFor(att)
        ia == IndexedFor(att)
        signatures == AggSignatureStage(beacon_chain, m, ia)
    IN  << <<att.data.slot > NowFuture, "FutureSlot">>,
           <<att.data.slot < NowPast - SlotsPerEpoch, "PastSlot">>,
           <<BagHas(attestations, tree_hash_root(att)), "AttestationAlreadyKnown">>,
           <<BagHas(aggregators, <<att.data.target.epoch, m.aggregator_index>>),
             "AggregatorAlreadyKnown">>,
           <<m.aggregator_index > ValidatorRegistryLimit, "ValidatorIndexTooHigh">>,
           <<get_block(att.data.beacon_block_root) = None, "UnknownHeadBlock">>,
           <<\A i \in DOMAIN att.aggregation_bits : ~att.aggregation_bits[i],
             "EmptyAggregationBitfield">>,
           <<get_block(att.data.target.root) = None, "UnknownTargetRoot">>,
           <<get_block(att.data.target.root) # None /\ committee = None,
             "NoCommitteeForSlotAndIndex">>,
           <<committee # None /\ ~is_aggregator(m.selection_proof, Len(committee[2])),
             "InvalidSelectionProof">>,
           <<committee # None
               /\ m.aggregator_index \notin {committee[2][i] : i \in DOMAIN committee[2]},
             "AggregatorNotInCommittee">>,
           <<committee # None /\ Len(att.aggregation_bits) # Len(committee[2]),
             "BeaconChainError">>,
           <<ia # NoIndexed /\ IsErr(signatures),
             IF IsErr(signatures) THEN ErrorName(signatures) ELSE "none">> >>

\* C25: a failing verify_aggregate returns the error of the first check its
\* aggregate violates in the order slot range (future, then past), known
\* attestation, known aggregator or aggregator index too high, unknown head
\* block, empty bitfield, unknown target root, no committee, selection
\* proof, aggregator not in the committee, indexed attestation, signatures;
\* and an accepted aggregate violates none of the checks on the message.
C25_AggregateCheckOrder ==
    \A t \in Calls :
        Latest(t) /\ msg[t].kind = "aggregate" =>
            /\ ReturnedErr(t) =>
                   ErrorName(result[t]) = FirstViolated(AggregateChecks(msg[t],
                       observed_attestations, observed_aggregators))
            /\ ReturnedOk(t) =>
                   FirstViolated(AggregateChecks(msg[t], EmptyBag, EmptyBag)) = "none"

\* An aggregate without a set bit and with an unknown head block has been
\* rejected with UnknownHeadBlock, and an aggregate with a selection proof
\* that does not elect, from an aggregator outside the committee, with
\* InvalidSelectionProof.
C25_Witness ==
    \E a, b \in Calls :
        /\ Latest(b)
        /\ msg[a] = Agg(0, Att(2, 0, "Z", 1, "A", <<F, F>>, {}), 0, T, T)
        /\ ReturnedError(a, "UnknownHeadBlock")
        /\ msg[b] = Agg(1, X2, 1, T, F)
        /\ ReturnedError(b, "InvalidSelectionProof")

\* The checks of verify_unaggregated in the order of C26, each one taken on
\* its own against the message, the clock, fork choice and the observation
\* cache.
UnaggregatedChecks(m, attesters) ==
    LET att == m.aggregate
        head == get_block(att.data.beacon_block_root)
        committee == CommitteeFor(att)
        ia == IndexedFor(att)
        signature == verify_attestation_signature(beacon_chain, ia)
    IN  << <<att.data.slot > NowFuture, "FutureSlot">>,
           <<att.data.slot < NowPast - SlotsPerEpoch, "PastSlot">>,
           <<num_set_bits(att.aggregation_bits) # 1, "NotExactlyOneAggregationBitSet">>,
           <<head = None, "UnknownHeadBlock">>,
           <<head # None /\ beacon_chain.import_max_skip_slots # None
               /\ att.data.slot > head[2].slot + beacon_chain.import_max_skip_slots[2],
             "TooManySkippedSlots">>,
           <<get_block(att.data.target.root) = None, "UnknownTargetRoot">>,
           <<get_block(att.data.target.root) # None /\ committee = None,
             "NoCommitteeForSlotAndIndex">>,
           <<committee # None /\ Len(att.aggregation_bits) # Len(committee[2]),
             "BeaconChainError">>,
           <<committee # None
               /\ m.subnet_id # compute_subnet_for_attestation_data(att.data,
                                    committees_per_slot(CommitteeCacheOf(Epoch(att.data.slot)))),
             "InvalidSubnetId">>,
           <<ia # NoIndexed /\ ia.attesting_indices # <<>>
               /\ BagHas(attesters, <<att.data.target.epoch, Head(ia.attesting_indices)>>),
             "PriorAttestationKnown">>,
           <<ia # NoIndexed /\ IsErr(signature),
             IF IsErr(signature) THEN ErrorName(signature) ELSE "none">> >>

\* C26: a failing verify_unaggregated returns the error of the first check
\* its attestation violates in the order slot range, number of set bits,
\* unknown head block, too many skipped slots, committee resolution, subnet,
\* validator already observed, signature; an accepted attestation violates
\* none of the checks on the message; and a call rejected because its
\* validator had been observed never reached the signature verification.
C26_UnaggregatedCheckOrder ==
    \A t \in Calls :
        Latest(t) /\ msg[t].kind = "unaggregated" =>
            /\ ReturnedErr(t) =>
                   ErrorName(result[t]) =
                       FirstViolated(UnaggregatedChecks(msg[t], observed_attesters))
            /\ ReturnedOk(t) =>
                   FirstViolated(UnaggregatedChecks(msg[t], EmptyBag)) = "none"
            /\ ReturnedError(t, "PriorAttestationKnown") => ~SignatureAttempted(t)

\* After the attestation of a validator was accepted, an attestation of the
\* same validator on the wrong subnet has been rejected with InvalidSubnetId.
C26_Witness ==
    \E a, b \in Calls :
        /\ a < b /\ Latest(b)
        /\ msg[a] = Unagg(X2, 0) /\ ReturnedOk(a)
        /\ msg[b] = Unagg(X2, 1) /\ ReturnedError(b, "InvalidSubnetId")
        /\ BagHas(observed_attesters, <<1, 2>>)

-----------------------------------------------------------------------------
(* C27: map_attestation_committee without a target or a committee *)

\* The positions of a call at the start of and inside map_attestation_committee.
MapEntry == {"agg_committee", "unagg_committee", "slash_committee"}

MapPositions ==
    {"map_lock", "map_lookup", "map_hit", "map_miss", "map_skip", "map_insert",
     "map_inserting", "map_local"}

\* The positions from which the next step hands a committee to the caller's
\* transform, and the committee cache it is looked up in.
TransformPositions == {"map_hit", "map_local"}

MapCommitteeCache(t) ==
    IF pc[t] = "map_hit"
    THEN shuffling_cache[ShufflingKey(MapAttestation(t))]
    ELSE CommitteeCacheFromState(local_state[t], MapAttestation(t))[2]

\* In this step map_attestation_committee returns the error to its caller:
\* verify_slashable wraps it with the attestation, process_slash_info drops
\* it and forwards nothing.
MapReturnsError(t, e) ==
    IF InProcessSlashInfo(t)
    THEN pc'[t] = "done" /\ slasher_accepted'[t] = slasher_accepted[t]
    ELSE pc'[t] = "slash"
         /\ slash_info'[t] = SignatureNotChecked(msg[t].aggregate, e)

\* C27: map_attestation_committee returns UnknownTargetRoot for a target
\* that fork choice does not have, and then has neither locked nor changed
\* the shuffling cache nor read the store; on the hit path and on the miss
\* path it returns NoCommitteeForSlotAndIndex when the committee cache has no
\* committee for the slot and index, and the transform has then produced
\* nothing; the transform runs in the last step of the function only, so at
\* most once per call.
C27_NoTargetNoCommittee ==
    /\ [][\A t \in Calls :
              (/\ pc[t] \in MapEntry /\ pc'[t] # pc[t]
               /\ get_block(MapAttestation(t).data.target.root) = None) =>
                  /\ MapReturnsError(t, <<"UnknownTargetRoot",
                                          MapAttestation(t).data.target.root>>)
                  /\ UNCHANGED <<shuffling_cache, held, local_state>>]_vars
    /\ [][\A t \in Calls :
              (pc[t] \in TransformPositions /\ pc'[t] # pc[t]) =>
                  LET att == MapAttestation(t) IN
                  /\ pc'[t] \notin MapPositions
                  /\ get_beacon_committee(MapCommitteeCache(t), att.data.slot,
                                          att.data.index) = None =>
                         /\ MapReturnsError(t, <<"NoCommitteeForSlotAndIndex",
                                                 att.data.slot, att.data.index>>)
                         /\ indexed'[t] = indexed[t]]_vars
    /\ [][\A t \in Calls :
              indexed'[t] # indexed[t] => pc[t] \in TransformPositions]_vars
    /\ [](\A t \in Calls :
              pc[t] \in MapPositions =>
                  get_block(MapAttestation(t).data.target.root) # None)

\* An attestation for a committee index that does not exist has been
\* rejected with NoCommitteeForSlotAndIndex on the miss path, which left the
\* committee cache behind, and again on the hit path; neither call has an
\* indexed attestation.
C27_Witness ==
    \E a, b \in Calls :
        /\ a < b /\ Done(b)
        /\ msg[a].aggregate.data.index = 1 /\ msg[b] = msg[a]
        /\ result[a] = Err(<<"NoCommitteeForSlotAndIndex", 2, 1>>)
        /\ result[b] = result[a]
        /\ ShufflingKey(msg[a].aggregate) \in DOMAIN shuffling_cache
        /\ indexed[a] = NoIndexed /\ indexed[b] = NoIndexed

-----------------------------------------------------------------------------
(* C28: the relative epoch on the miss path *)

\* The epoch of the attestation that map_attestation_committee resolves.
MapAttestationEpoch(t) == Epoch(MapAttestation(t).data.slot)

\* The attestation's epoch is the current or the previous epoch of the
\* call's state.
CurrentOrPrevious(t) ==
    \/ MapAttestationEpoch(t) = Epoch(local_state[t].slot)
    \/ MapAttestationEpoch(t) + 1 = Epoch(local_state[t].slot)

-----------------------------------------------------------------------------
(* C29: the fast-forward loop *)

\* The call is in the loop of the miss path.
InLoop(t) == pc[t] = "map_skip"

\* The slots the state of the call is behind the first slot of the epoch
\* before its attestation's.
SlotsToSkip(t) ==
    LET first == (MapAttestationEpoch(t) - 1) * SlotsPerEpoch IN
    IF local_state[t].slot < first THEN first - local_state[t].slot ELSE 0

\* Messages of slots 6 and 8 for a clock at slot 8: their target states are
\* at the attestation's epoch, behind it, or cannot advance.
SkipMessages ==
    { Agg(0, Att(6, 0, "D", 3, "D", <<T, T>>, {0, 1}), 0, T, T), \* valid
      Unagg(Att(6, 0, "D", 3, "D", <<T, F>>, {0}), 0),           \* valid, validator 0
      Agg(0, Att(6, 0, "A", 3, "A", <<T, T>>, {0, 1}), 0, T, T), \* state two epochs behind
      Agg(0, Att(6, 0, "A", 3, "C", <<T, T>>, {0, 1}), 0, T, T), \* state one epoch behind
      Agg(0, Att(8, 0, "A", 4, "C", <<T, T>>, {0, 2}), 0, T, T) } \* state cannot advance

InitSkip == InitLocks /\ beacon_chain = LateChain

NextSkip ==
    \/ \E t \in Calls :
        \/ \E m \in SkipMessages :
               /\ \A c \in Calls : c < t => pc[c] = "done"
               /\ verify(t, m)
        \/ CallStep(t)
    \/ \E lock \in Locks : node_write_lock(lock)
    \/ node_unlock

\* The steps of a call are taken as long as they can be: the thread that
\* runs it is scheduled.
SpecSkip == InitSkip /\ [][NextSkip]_vars /\ \A t \in Calls : WF_vars(CallStep(t))

\* C29: a step of the loop is taken only while the epoch after the state's
\* is before the attestation's; it moves the state one slot on, towards the
\* epoch before the attestation's, or fails, and then
\* map_attestation_committee returns the error of per_slot_processing with
\* the shuffling cache as it is; a state that is not behind leaves the loop
\* without a step; past the loop the epoch after the state's is not before
\* the attestation's; and every call that enters the loop leaves it.
C29_FastForwardTerminates ==
    /\ [][\A t \in Calls :
              (InLoop(t) /\ NeedsSkip(local_state[t], MapAttestationEpoch(t))
                  /\ <<pc[t], local_state[t]>>' # <<pc[t], local_state[t]>>) =>
                  IF local_state[t].sound
                  THEN /\ InLoop(t)'
                       /\ local_state'[t].slot = local_state[t].slot + 1
                       /\ SlotsToSkip(t)' = SlotsToSkip(t) - 1
                  ELSE /\ MapReturnsError(t, BeaconChainError("SlotProcessingError"))
                       /\ shuffling_cache' = shuffling_cache]_vars
    /\ [][\A t \in Calls :
              (InLoop(t) /\ ~NeedsSkip(local_state[t], MapAttestationEpoch(t))) =>
                  local_state'[t] = local_state[t] \/ ~InLoop(t)']_vars
    /\ [](\A t \in Calls :
              /\ InLoop(t) => (SlotsToSkip(t) = 0
                                <=> ~NeedsSkip(local_state[t], MapAttestationEpoch(t)))
              /\ pc[t] \in {"map_insert", "map_inserting", "map_local"} =>
                     Epoch(local_state[t].slot) + 1 >= MapAttestationEpoch(t))
    /\ \A t \in Calls : InLoop(t) ~> ~InLoop(t)

\* A call has moved its state on by two slots and is past the loop with the
\* state in the epoch before its attestation's.
C29_Witness ==
    \E t \in Calls :
        /\ InLoop(t)
        /\ local_state[t].slot = fork_choice[msg[t].aggregate.data.target.root].slot + 2
        /\ ~NeedsSkip(local_state[t], MapAttestationEpoch(t))

-----------------------------------------------------------------------------
(* C30: the shuffling cache lock around the store read *)

\* The positions of the miss path at which the call reads the state from the
\* store, moves it on or builds the committee cache.
MissWork == {"map_miss", "map_skip", "map_insert"}

\* C30: a call that reads the state from the store, fast-forwards it or
\* builds the committee cache does not hold the shuffling cache lock: the
\* lookup that misses gives the lock up and the insert takes it anew; a call
\* that hit holds the lock until the transform has returned.
C30_NoLockAcrossStoreRead ==
    /\ [](\A t \in Calls :
              /\ pc[t] \in MissWork => held[t] = <<>>
              /\ pc[t] \in {"map_lookup", "map_hit", "map_inserting"} =>
                     held[t] = <<"shuffling_cache">>)
    /\ [][\A t \in Calls :
              /\ (pc[t] = "map_lookup" /\ pc'[t] = "map_miss") =>
                     held[t] = <<"shuffling_cache">> /\ held'[t] = <<>>
              /\ (pc[t] = "map_insert" /\ pc'[t] = "map_inserting") =>
                     held[t] = <<>> /\ held'[t] = <<"shuffling_cache">>
              /\ local_state'[t] # local_state[t] /\ local_state'[t] # NoState =>
                     held[t] = <<>>
              /\ (pc[t] = "map_hit" /\ pc'[t] # pc[t]) =>
                     /\ held[t] = <<"shuffling_cache">> /\ held'[t] = <<>>
                     /\ pc'[t] \notin MapPositions]_vars

\* A call has read the state from the store after a miss, is in the loop
\* that moves it on and holds no lock; the shuffling cache has no entry for
\* its attestation yet.
C30_Witness ==
    \E t \in Calls :
        /\ pc[t] = "map_skip"
        /\ local_state[t] # NoState
        /\ held[t] = <<>>
        /\ ShufflingKey(MapAttestation(t)) \notin DOMAIN shuffling_cache

-----------------------------------------------------------------------------
(* C31: two calls that miss the shuffling cache for the same key *)

\* Two calls at a time run against the clock at slot 8 without a slasher,
\* on the messages of the fast-forward loop; several of them share the key
\* <<3, "D">> of the shuffling cache.
InitMiss == InitLocks /\ beacon_chain = LateChain /\ ~slasher

NextMiss ==
    \E t \in Calls :
        \/ \E m \in SkipMessages :
               /\ Cardinality(InFlight) <= 1
               /\ verify(t, m)
        \/ CallStep(t)

SpecMiss == InitMiss /\ [][NextMiss]_vars

\* The committee cache the call built from its own state.
OwnCopy(t) == CommitteeCacheFromState(local_state[t], MapAttestation(t))[2]

\* The call is about to insert its committee cache, and the cache got an
\* entry for the key after the call's lookup had missed.
LostRace(t) ==
    /\ pc[t] = "map_inserting"
    /\ ShufflingKey(MapAttestation(t)) \in DOMAIN shuffling_cache

\* C31 as stated: after an insert that came second the call goes on to the
\* entry of the cache, which it reads under the lock, and runs its transform
\* on that entry.
C31_LoserReadsBackWinnersEntry ==
    [][\A t \in Calls :
           (LostRace(t) /\ pc'[t] # pc[t]) =>
               /\ shuffling_cache' = shuffling_cache
               /\ pc'[t] = "map_hit"
               /\ held'[t] = <<"shuffling_cache">>]_vars

\* C31 as amended: an insert that comes second leaves the entry of the first
\* as it is; the call then lets go of the lock and runs its transform on the
\* committee cache of its own state, without looking into the shuffling
\* cache again; that copy is equal to the entry the cache holds.
C31_LoserKeepsEntryAndUsesOwnCopy ==
    /\ [][\A t \in Calls :
              (LostRace(t) /\ pc'[t] # pc[t]) =>
                  /\ shuffling_cache' = shuffling_cache
                  /\ pc'[t] = "map_local"
                  /\ held'[t] = <<>>
                  /\ local_state'[t] = local_state[t]]_vars
    /\ [](\A t \in Calls :
              pc[t] = "map_local" =>
                  /\ held[t] = <<>>
                  /\ ShufflingKey(MapAttestation(t)) \in DOMAIN shuffling_cache
                  /\ shuffling_cache[ShufflingKey(MapAttestation(t))] = OwnCopy(t)
                  /\ MapCommitteeCache(t) = OwnCopy(t))

\* Two calls missed the cache for the same key, both have made their insert
\* and both are about to run the transform on their own copy.
C31_Witness ==
    \E a, b \in Calls :
        /\ a # b
        /\ pc[a] = "map_local" /\ pc[b] = "map_local"
        /\ ShufflingKey(MapAttestation(a)) = ShufflingKey(MapAttestation(b))
        /\ local_state[a] # NoState /\ local_state[b] # NoState

-----------------------------------------------------------------------------
(* C32: the lower bound of the propagation range *)

\* C32: while now_past is less than slots_per_epoch no call returns
\* PastSlot, whatever the slot of its attestation, slot 0 included; and the
\* earliest permissible slot that a PastSlot carries is a slot from 0 to
\* now_past, slots_per_epoch before now_past and after the attestation's.
C32_LowerBoundSaturates ==
    \A t \in Calls :
        Done(t) =>
            /\ NowPast < SlotsPerEpoch => ~ReturnedError(t, "PastSlot")
            /\ ReturnedError(t, "PastSlot") =>
                   /\ result[t][2][3] \in 0..NowPast
                   /\ result[t][2][3] + SlotsPerEpoch = NowPast
                   /\ SlotOf(t) < result[t][2][3]

\* With now_past at slot 1 and two slots per epoch an attestation of slot 0
\* was accepted.
C32_Witness ==
    \E t \in Calls :
        /\ NowPast = 1 /\ NowPast < SlotsPerEpoch
        /\ SlotOf(t) = 0
        /\ ReturnedOk(t)

-----------------------------------------------------------------------------
(* C33: a slot clock that cannot be read *)

\* Clocks of which one reading or both fail, and the clock that reads slot 3.
ClockChains ==
    { DefaultChain,
      [DefaultChain EXCEPT !.now_with_future_tolerance = None],
      [DefaultChain EXCEPT !.now_with_past_tolerance = None],
      [DefaultChain EXCEPT !.now_with_future_tolerance = None,
                           !.now_with_past_tolerance = None] }

InitClock ==
    /\ pc = [t \in Calls |-> "idle"]
    /\ msg = [t \in Calls |-> NoMsg]
    /\ indexed = [t \in Calls |-> NoIndexed]
    /\ per_slot = [t \in Calls |-> 0]
    /\ attester_index = [t \in Calls |-> 0]
    /\ sig_verified = [t \in Calls |-> FALSE]
    /\ slash_info = [t \in Calls |-> NoSlashInfo]
    /\ result = [t \in Calls |-> NoResult]
    /\ observed_attestations = EmptyBag
    /\ observed_aggregators = EmptyBag
    /\ observed_attesters = EmptyBag
    /\ shuffling_cache = <<>>
    /\ slasher \in BOOLEAN
    /\ beacon_chain \in ClockChains
    /\ slasher_accepted = [t \in Calls |-> <<>>]
    /\ wrote = [t \in Calls |-> {}]
    /\ started_after = [t \in Calls |-> {}]
    /\ held = [t \in Calls |-> <<>>]
    /\ node_holds = {}
    /\ local_state = [t \in Calls |-> NoState]
    /\ ValidatorClientInit

SpecClock == InitClock /\ [][NextSeq]_vars

FutureUnreadable == beacon_chain.now_with_future_tolerance = None

PastUnreadable == beacon_chain.now_with_past_tolerance = None

ClockUnreadable == FutureUnreadable \/ PastUnreadable

UnableToReadSlot == Err(BeaconChainError("UnableToReadSlot"))

\* The call's attestation is after the latest permissible slot, which the
\* clock could give.
AfterLatestPermissible(t) ==
    /\ ~FutureUnreadable
    /\ SlotOf(t) > beacon_chain.now_with_future_tolerance[2]

\* verify_slashable ran no check after the slot range: it failed with the
\* attestation as it came, derived no indexed attestation, verified no
\* signature and wrote to no observation cache.
NoLaterCheck(t) ==
    /\ slash_info[t] = SignatureNotChecked(msg[t].aggregate, result[t][2])
    /\ indexed[t] = NoIndexed
    /\ ~sig_verified[t]
    /\ wrote[t] = {}

\* C33 as stated: with a clock of which a reading fails, every call returns
\* BeaconChainError(UnableToReadSlot), and its verify_slashable ran no later
\* check.
C33_UnreadableClockIsInternalError ==
    \A t \in Calls :
        (Done(t) /\ ClockUnreadable) =>
            /\ result[t] = UnableToReadSlot
            /\ NoLaterCheck(t)

\* C33 as amended: when now_with_future_tolerance cannot be read the call
\* returns BeaconChainError(UnableToReadSlot); when only
\* now_with_past_tolerance cannot be read it returns FutureSlot for an
\* attestation after the latest permissible slot and UnableToReadSlot for
\* every other; it never returns PastSlot; its verify_slashable fails in the
\* first step and runs no later check; the observation caches stay empty.
C33_UnreadableClockStopsAtSlotRange ==
    /\ [](\A t \in Calls :
              (Done(t) /\ ClockUnreadable) =>
                  /\ result[t] = IF AfterLatestPermissible(t)
                                 THEN Err(<<"FutureSlot", SlotOf(t),
                                            beacon_chain.now_with_future_tolerance[2]>>)
                                 ELSE UnableToReadSlot
                  /\ NoLaterCheck(t))
    /\ [](ClockUnreadable =>
              /\ observed_attestations = EmptyBag
              /\ observed_aggregators = EmptyBag
              /\ observed_attesters = EmptyBag)
    /\ [][\A t \in Calls :
              (ClockUnreadable /\ pc[t] \in {"agg_early", "unagg_early"}
                  /\ pc'[t] # pc[t]) => pc'[t] = "slash"]_vars

\* With a past tolerance that cannot be read, an aggregate and an
\* unaggregated attestation were refused with UnableToReadSlot.
C33_Witness ==
    \E a, b \in Calls :
        /\ PastUnreadable
        /\ IsAggregate(a) /\ IsUnaggregated(b)
        /\ result[a] = UnableToReadSlot /\ result[b] = UnableToReadSlot

-----------------------------------------------------------------------------
(* C34: the indexed attestation of a wrapper *)

\* The committee of the call's attestation.
CommitteeOf(t) == CommitteeFor(msg[t].aggregate)[2]

\* The committee members at the positions whose aggregation bit is set.
Participants(t) ==
    LET bits == msg[t].aggregate.aggregation_bits IN
    {CommitteeOf(t)[i] : i \in {j \in DOMAIN bits : bits[j]}}

\* The bits of the call's attestation are as many as its committee has
\* members.
BitsFitCommittee(t) ==
    Len(msg[t].aggregate.aggregation_bits) = Len(CommitteeOf(t))

\* C34: the indexed attestation a call derived, and the one of the wrapper it
\* returned, holds the committee members whose bit is set, each once and in
\* ascending order, with the data and the signature of the attestation; it
\* was derived from bits that fit the committee, and a call that came to the
\* derivation with other bits returned InvalidBitfield without an indexed
\* attestation; an accepted unaggregated attestation has one attesting
\* index, the committee member at its set bit, which verify_middle_checks
\* returned and which the call recorded in observed_attesters under the
\* target epoch.
C34_IndexedAttestationOfWrapper ==
    \A t \in Calls :
        /\ indexed[t] # NoIndexed =>
               LET indices == indexed[t].attesting_indices IN
               /\ BitsFitCommittee(t)
               /\ {indices[i] : i \in DOMAIN indices} = Participants(t)
               /\ \A i, j \in DOMAIN indices : i < j => indices[i] < indices[j]
               /\ indexed[t].data = msg[t].aggregate.data
               /\ indexed[t].signature = msg[t].aggregate.signature
        /\ ReturnedOk(t) =>
               /\ indexed[t] # NoIndexed
               /\ result[t][2].indexed_attestation = indexed[t]
        /\ ReturnedError(t, "BeaconChainError") /\ result[t][2][2] = "InvalidBitfield" =>
               /\ ~BitsFitCommittee(t)
               /\ indexed[t] = NoIndexed
        /\ (Done(t) /\ CommitteeFor(msg[t].aggregate) # None /\ ~BitsFitCommittee(t)) =>
               /\ ReturnedErr(t)
               /\ indexed[t] = NoIndexed
        /\ (IsUnaggregated(t) /\ ReturnedOk(t)) =>
               LET bits == msg[t].aggregate.aggregation_bits
                   index == indexed[t].attesting_indices[1]
                   key == <<msg[t].aggregate.data.target.epoch, index>>
               IN  /\ Len(indexed[t].attesting_indices) = 1
                   /\ \E i \in DOMAIN bits :
                          /\ bits[i] /\ \A j \in DOMAIN bits : bits[j] => j = i
                          /\ index = CommitteeOf(t)[i]
                   /\ attester_index[t] = index
                   /\ <<"observed_attesters", key>> \in wrote[t]
                   /\ BagHas(observed_attesters, key)

\* An aggregate of the committee <<2, 0>> with both bits set was accepted
\* with the attesting indices <<0, 2>>, and an aggregate with three bits for
\* that committee was refused with InvalidBitfield.
C34_Witness ==
    \E a, b \in Calls :
        /\ ReturnedOk(a) /\ IsAggregate(a)
        /\ CommitteeOf(a) = <<2, 0>>
        /\ result[a][2].indexed_attestation.attesting_indices = <<0, 2>>
        /\ Len(msg[b].aggregate.aggregation_bits) = 3
        /\ result[b] = Err(BeaconChainError("InvalidBitfield"))

\* An unaggregated attestation with the first bit set for the committee
\* <<2, 0>> was accepted for validator 2, which is observed.
UnaggregatedIndexedReached ==
    \E t \in Calls :
        /\ IsUnaggregated(t) /\ ReturnedOk(t)
        /\ CommitteeOf(t) = <<2, 0>>
        /\ indexed[t].attesting_indices = <<2>>
        /\ BagHas(observed_attesters, <<1, 2>>)

-----------------------------------------------------------------------------
(* C35: success implies observation *)

\* The entry of the observation cache `name` was inserted by call t and by
\* no other call, and the cache holds it.
InsertedBy(t, name, cache, e) ==
    /\ BagHas(cache, e)
    /\ <<name, e>> \in wrote[t]
    /\ \A c \in Calls \ {t} : <<name, e>> \notin wrote[c]

\* C35: from the moment verify returns Ok for an unaggregated attestation,
\* observed_attesters holds the target epoch with the validator index of the
\* middle checks; from the moment it returns Ok for an aggregate,
\* observed_attestations holds the root of the aggregate and
\* observed_aggregators the target epoch with the aggregator index; each of
\* these entries was inserted by the call that returned Ok.
C35_SuccessImpliesObservation ==
    \A t \in Calls :
        ReturnedOk(t) =>
            LET attestation == msg[t].aggregate
                epoch == attestation.data.target.epoch
            IN  /\ IsUnaggregated(t) =>
                       InsertedBy(t, "observed_attesters", observed_attesters,
                                  <<epoch, attester_index[t]>>)
                /\ IsAggregate(t) =>
                       /\ InsertedBy(t, "observed_attestations", observed_attestations,
                                     tree_hash_root(attestation))
                       /\ InsertedBy(t, "observed_aggregators", observed_aggregators,
                                     <<epoch, msg[t].aggregator_index>>)

\* An aggregate and an unaggregated attestation were accepted by calls that
\* ran at the same time.
C35_Witness ==
    \E a, b \in Calls :
        /\ IsAggregate(a) /\ ReturnedOk(a)
        /\ IsUnaggregated(b) /\ ReturnedOk(b)
        /\ Overlap(a, b)

-----------------------------------------------------------------------------
(* C36: the target epoch and the epoch of the slot *)

\* Attestations of slot 2, which is in epoch 1, that name another target
\* epoch and are sound in everything else.
BadTargetMessages ==
    { Unagg(Att(2, 0, "A", 0, "A", <<T, F>>, {2}), 0),       \* target epoch 0
      Unagg(Att(2, 0, "A", 2, "A", <<F, T>>, {0}), 0),       \* target epoch 2
      Agg(0, Att(2, 0, "A", 2, "A", <<T, T>>, {0, 2}), 0, T, T) } \* target epoch 2

TargetMessages == SeqMessages \cup BadTargetMessages

\* verify is entered once every earlier call has returned.
NextTarget ==
    \E t \in Calls :
        \/ \E m \in TargetMessages :
               /\ \A c \in Calls : c < t => pc[c] = "done"
               /\ verify(t, m)
        \/ agg_verify_early_checks_attestation(t)
        \/ agg_verify_early_checks_aggregator(t)
        \/ agg_map_attestation_committee(t)
        \/ agg_map_attestation_committee_miss(t)
        \/ agg_verify_signatures(t)
        \/ agg_verify_late_checks_attestation(t)
        \/ agg_verify_late_checks_aggregator(t)
        \/ unagg_verify_early_checks(t)
        \/ unagg_obtain_indexed_attestation(t)
        \/ unagg_obtain_indexed_attestation_miss(t)
        \/ unagg_verify_middle_checks(t)
        \/ unagg_verify_attestation_signature(t)
        \/ unagg_verify_late_checks(t)
        \/ process_slash_info(t)
        \/ process_slash_info_miss(t)

SpecTarget == InitSeq /\ [][NextTarget]_vars

\* The target epoch of the call's attestation is the epoch of its slot.
TargetEpochIsSlotEpoch(t) ==
    msg[t].aggregate.data.target.epoch = Epoch(msg[t].aggregate.data.slot)

\* C36: an attestation for which verify returns Ok has the epoch of its slot
\* as target epoch, so that the epoch of its observation cache entries is the
\* epoch its committee was resolved for; a call with an attestation whose
\* slot is not in its target epoch returns an error.
C36_AcceptedTargetEpochIsSlotEpoch ==
    \A t \in Calls :
        /\ ReturnedOk(t) => TargetEpochIsSlotEpoch(t)
        /\ (Done(t) /\ ~TargetEpochIsSlotEpoch(t)) => ReturnedErr(t)

\* An unaggregated attestation of slot 2 with target epoch 0 was accepted,
\* and the validator is observed for epoch 0 with the committee of epoch 1.
BadTargetAccepted ==
    \E t \in Calls :
        /\ ReturnedOk(t) /\ IsUnaggregated(t)
        /\ SlotOf(t) = 2 /\ msg[t].aggregate.data.target.epoch = 0
        /\ BagHas(observed_attesters, <<0, 2>>)
        /\ ShufflingKey(msg[t].aggregate) = <<1, "A">>

\* No call returns BadTargetEpoch.
BadTargetEpochNeverReturned ==
    \A t \in Calls : ~ReturnedError(t, "BadTargetEpoch")

-----------------------------------------------------------------------------
(* C37: a failing call without a slasher *)

\* The positions of a call inside verify_early_checks.
EarlyPositions == {"agg_early", "agg_early_aggregator", "unagg_early"}

\* verify_slashable of the call failed in verify_early_checks.
FailedInEarlyChecks(t) ==
    /\ slash_info[t] # NoSlashInfo
    /\ slash_info[t][1] = "SignatureNotChecked"
    /\ SlashError(slash_info[t])[1] \in
           {"FutureSlot", "PastSlot", "AttestationAlreadyKnown",
            "AggregatorAlreadyKnown", "ValidatorIndexTooHigh", "UnknownHeadBlock",
            "TooManySkippedSlots", "EmptyAggregationBitfield",
            "NotExactlyOneAggregationBitSet"}

\* C37: without a slasher process_slash_info is one step that returns the
\* error of the slash info and leaves the shuffling cache, the observation
\* caches, the locks and the call's state as they are: it does not enter
\* map_attestation_committee, reads no state from the store and hands
\* nothing to a slasher; a step of the early checks changes no cache either,
\* so that as long as every call that was entered failed in the early checks
\* the shuffling cache and the observation caches are empty.
C37_NoWorkAfterFailureWithoutSlasher ==
    /\ [][\A t \in Calls :
              (~slasher /\ pc[t] = "slash" /\ pc'[t] # pc[t]) =>
                  /\ pc'[t] = "done"
                  /\ result'[t] = Err(SlashError(slash_info[t]))
                  /\ UNCHANGED <<shuffling_cache, caches, held, local_state,
                                 slasher_accepted>>]_vars
    /\ [][\A t \in Calls :
              (pc[t] \in EarlyPositions /\ pc'[t] # pc[t]) =>
                  UNCHANGED <<shuffling_cache, caches, local_state>>]_vars
    /\ [](~slasher =>
              \A t \in Calls :
                  /\ pc[t] # "slash_committee"
                  /\ slasher_accepted[t] = <<>>
                  /\ InProcessSlashInfo(t) => pc[t] \in {"slash", "done"})
    /\ []((~slasher /\ \A t \in Calls : Started(t) =>
                           pc[t] \in EarlyPositions \/ FailedInEarlyChecks(t)) =>
              /\ shuffling_cache = <<>>
              /\ observed_attestations = EmptyBag
              /\ observed_aggregators = EmptyBag
              /\ observed_attesters = EmptyBag)

\* Without a slasher a call whose target block is known failed in the early
\* checks and returned; the shuffling cache has no entry for its attestation.
C37_Witness ==
    \E t \in Calls :
        /\ ~slasher
        /\ Done(t) /\ FailedInEarlyChecks(t)
        /\ result[t] = Err(SlashError(slash_info[t]))
        /\ get_block(msg[t].aggregate.data.target.root) # None
        /\ ShufflingKey(msg[t].aggregate) \notin DOMAIN shuffling_cache

-----------------------------------------------------------------------------
(* The validator client's HTTP API: POST lighthouse/validators/hd            *)
(* (validator_client/src/http_api/mod.rs, 197-330)                           *)

\* Bound: the entries of one request's `validators`.
MaxValidators == 2

\* Phrases that mnemonic_from_phrase accepts, and one it rejects.
Phrases == {"abandon", "zoo"}

BadPhrase == "zoo zoo"

Deposits == {32}

\* api_types::HdValidatorsPostRequest: an optional mnemonic and one entry per
\* validator to create.
HdBodies ==
    [mnemonic : {None} \cup {Some(p) : p \in Phrases \cup {BadPhrase}},
     validators : UNION {[1 .. n -> [deposit_gwei : Deposits]] : n \in 0 .. MaxValidators}]

\* What the attestation side of the model holds; the validator client is a
\* process of its own and touches none of it.
beacon_node == <<pc, msg, locals, slash_info, result, caches, shuffling_cache, slasher,
                 beacon_chain, slasher_accepted, history, lock_level>>

custom_bad_request(m) == <<"BadRequest", m>>

custom_server_error(m) == <<"ServerError", m>>

mnemonic_from_phrase(phrase) ==
    IF phrase \in Phrases THEN Ok(phrase) ELSE Err("invalid phrase")

\* The voting key the wallet derives from its seed for account `account`.
VotingPubkey(seed, account) == <<seed, account>>

\* format!("0x{}", pubkey) and the parse of that string into PublicKeyBytes.
PubkeyHex(pubkey) == <<"0x">> \o pubkey

ParsePublicKeyBytes(s) ==
    IF Len(s) = 3 /\ Head(s) = "0x" THEN Ok(Tail(s)) ELSE Err("InvalidHex")

\* ValidatorDefinition::new_keystore_with_password: an enabled definition of
\* the keystore's key.
new_keystore_with_password(pubkey) == [enabled |-> TRUE, voting_public_key |-> pubkey]

\* api_types::ValidatorData as the loop pushes it (312-315).
ValidatorData(pubkey) == [enabled |-> TRUE, voting_pubkey |-> pubkey]

\* What the calls of one loop iteration that are not defined in this file can
\* come back with: each may fail, and add_definition may fail before or after
\* it has pushed the definition.
LoopOutcomes ==
    {"next_validator", "build", "utf8", "new_keystore", "add_rejected", "add_failed", "ok"}

\* InitializedValidators::add_definition: <<result, definitions afterwards>>.
add_definition(definitions, def, outcome) ==
    CASE outcome = "add_rejected" -> <<Err("rejected"), definitions>>
      [] outcome = "add_failed" -> <<Err("failed"), Append(definitions, def)>>
      [] OTHER -> <<Ok(<<>>), Append(definitions, def)>>

\* The handler returns `r` to the client.
HdReturn(r, answer) ==
    /\ response' = [response EXCEPT ![r] = answer]
    /\ hd_pc' = [hd_pc EXCEPT ![r] = "done"]

\* Lines 207-237: the request arrives; the mnemonic is parsed or drawn, the
\* wallet is built and `validators` starts empty.
post_validator_hd(r, b) ==
    /\ hd_pc[r] = "idle"
    /\ body' = [body EXCEPT ![r] = b]
    /\ \E random_mnemonic \in Phrases, wallet_built \in BOOLEAN :
         LET parsed == IF b.mnemonic # None
                       THEN mnemonic_from_phrase(b.mnemonic[2])
                       ELSE Ok(random_mnemonic)
         IN  IF IsErr(parsed)
             THEN /\ HdReturn(r, Err(custom_bad_request("invalid mnemonic")))
                  /\ UNCHANGED mnemonic
             ELSE /\ mnemonic' = [mnemonic EXCEPT ![r] = parsed[2]]
                  /\ IF ~wallet_built
                     THEN HdReturn(r, Err(custom_server_error(
                                             "unable to create EIP-2386 wallet")))
                     ELSE /\ hd_pc' = [hd_pc EXCEPT ![r] = "loop"]
                          /\ UNCHANGED response
    /\ UNCHANGED <<beacon_node, initialized_validators, wallet, validators>>

\* An iteration that fails after it changed the definitions to `definitions`.
hd_iteration_fails(r, definitions, message) ==
    /\ HdReturn(r, Err(custom_server_error(message)))
    /\ initialized_validators' = definitions
    /\ UNCHANGED validators

\* Lines 239-316: one iteration of the loop over body.validators, under one
\* write lock of initialized_validators.
hd_create_validator_rolling_back(r) ==
    /\ hd_pc[r] = "loop"
    /\ Len(validators[r]) < Len(body[r].validators)
    /\ \E outcome \in LoopOutcomes :
         LET voting == VotingPubkey(mnemonic[r], wallet[r])
             voting_pubkey == ParsePublicKeyBytes(PubkeyHex(voting))
             validator_def == new_keystore_with_password(voting)
             added == add_definition(initialized_validators, validator_def, outcome)
             kept == SubSeq(initialized_validators, 1,
                            Len(initialized_validators) - Len(validators[r]))
         IN  IF outcome = "next_validator"
             THEN /\ hd_iteration_fails(r, kept, "unable to create validator keys")
                  /\ UNCHANGED wallet
             ELSE /\ wallet' = [wallet EXCEPT ![r] = @ + 1]
                  /\ IF IsErr(voting_pubkey)
                     THEN hd_iteration_fails(r, kept, "created invalid public key")
                     ELSE IF outcome = "build"
                     THEN hd_iteration_fails(r, kept, "failed to build validator directory")
                     ELSE IF outcome = "utf8"
                     THEN hd_iteration_fails(r, kept,
                                             "locally generated password is not utf8")
                     ELSE IF outcome = "new_keystore"
                     THEN hd_iteration_fails(r, kept,
                                             "failed to create validator definitions")
                     ELSE IF IsErr(added[1])
                     THEN hd_iteration_fails(r, kept, "failed to initialize validator")
                     ELSE /\ initialized_validators' = added[2]
                          /\ validators' = [validators EXCEPT
                                ![r] = Append(@, ValidatorData(voting_pubkey[2]))]
                          /\ UNCHANGED <<hd_pc, response>>
    /\ UNCHANGED <<beacon_node, body, mnemonic>>

hd_create_validator(r) ==
    /\ hd_pc[r] = "loop"
    /\ Len(validators[r]) < Len(body[r].validators)
    /\ \E outcome \in LoopOutcomes :
         LET voting == VotingPubkey(mnemonic[r], wallet[r])
             voting_pubkey == ParsePublicKeyBytes(PubkeyHex(voting))
             validator_def == new_keystore_with_password(voting)
             added == add_definition(initialized_validators, validator_def, outcome)
         IN  IF outcome = "next_validator"
             THEN /\ hd_iteration_fails(r, initialized_validators,
                                        "unable to create validator keys")
                  /\ UNCHANGED wallet
             ELSE /\ wallet' = [wallet EXCEPT ![r] = @ + 1]
                  /\ IF IsErr(voting_pubkey)
                     THEN hd_iteration_fails(r, initialized_validators,
                                             "created invalid public key")
                     ELSE IF outcome = "build"
                     THEN hd_iteration_fails(r, initialized_validators,
                                             "failed to build validator directory")
                     ELSE IF outcome = "utf8"
                     THEN hd_iteration_fails(r, initialized_validators,
                                             "locally generated password is not utf8")
                     ELSE IF outcome = "new_keystore"
                     THEN hd_iteration_fails(r, initialized_validators,
                                             "failed to create validator definitions")
                     ELSE IF IsErr(added[1])
                     THEN hd_iteration_fails(r, added[2], "failed to initialize validator")
                     ELSE /\ initialized_validators' = added[2]
                          /\ validators' = [validators EXCEPT
                                ![r] = Append(@, ValidatorData(voting_pubkey[2]))]
                          /\ UNCHANGED <<hd_pc, response>>
    /\ UNCHANGED <<beacon_node, body, mnemonic>>

\* Lines 318-327: the loop is over; the response carries the mnemonic only if
\* the request had none.
hd_respond(r) ==
    /\ hd_pc[r] = "loop"
    /\ Len(validators[r]) = Len(body[r].validators)
    /\ HdReturn(r, Ok([mnemonic |-> IF body[r].mnemonic # None
                                    THEN None
                                    ELSE Some(mnemonic[r]),
                       validators |-> validators[r]]))
    /\ UNCHANGED <<beacon_node, initialized_validators, body, mnemonic, wallet, validators>>

\* The beacon node is at rest while the validator client serves its requests.
InitHd == Init /\ ~slasher

NextHd ==
    \/ \E r \in Requests, b \in HdBodies : post_validator_hd(r, b)
    \/ \E r \in Requests : hd_create_validator(r)
    \/ \E r \in Requests : hd_respond(r)

SpecHd == InitHd /\ [][NextHd]_vars

HdDone(r) == hd_pc[r] = "done"

HdKeys(s) == [i \in 1 .. Len(s) |-> s[i].voting_pubkey]

DefinitionKeys == [i \in 1 .. Len(initialized_validators) |->
                      initialized_validators[i].voting_public_key]

\* `s` is what is left of `t` after dropping some of its elements.
RECURSIVE IsSubsequence(_, _)
IsSubsequence(s, t) ==
    IF s = <<>> THEN TRUE
    ELSE IF t = <<>> THEN FALSE
    ELSE IF Head(s) = Head(t) THEN IsSubsequence(Tail(s), Tail(t))
    ELSE IsSubsequence(s, Tail(t))

\* A step adds at most one definition, at the end: the enabled definition of
\* the key of the entry some request's loop is at.
OneAtATime ==
    \/ initialized_validators' = initialized_validators
    \/ \E r \in Requests :
         /\ hd_pc[r] = "loop"
         /\ Len(validators[r]) < Len(body[r].validators)
         /\ initialized_validators' =
               Append(initialized_validators,
                      [enabled |-> TRUE,
                       voting_public_key |->
                           VotingPubkey(mnemonic[r], Len(validators[r]))])

\* The successful response: one enabled validator per entry, the i-th with the
\* i-th key of the wallet, and the mnemonic exactly if the request had none.
HdSuccess(r) ==
    LET data == response[r][2]
    IN  /\ Len(data.validators) = Len(body[r].validators)
        /\ \A i \in 1 .. Len(data.validators) :
             /\ data.validators[i].enabled
             /\ data.validators[i].voting_pubkey = VotingPubkey(mnemonic[r], i - 1)
        /\ (data.mnemonic = None) <=> (body[r].mnemonic # None)
        /\ body[r].mnemonic = None => data.mnemonic = Some(mnemonic[r])
        /\ IsSubsequence(HdKeys(data.validators), DefinitionKeys)

\* The failed request: it stopped at entry Len(validators) + 1 (or before the
\* loop), and what the earlier iterations added is still there.
HdFailure(r) ==
    /\ Len(validators[r]) < Len(body[r].validators) \/ validators[r] = <<>>
    /\ \A i \in 1 .. Len(validators[r]) :
         validators[r][i].voting_pubkey = VotingPubkey(mnemonic[r], i - 1)
    /\ IsSubsequence(HdKeys(validators[r]), DefinitionKeys)

HdAnswers ==
    \A r \in Requests :
        /\ HdDone(r) => IsOk(response[r]) \/ IsErr(response[r])
        /\ HdDone(r) /\ IsOk(response[r]) => HdSuccess(r)
        /\ HdDone(r) /\ IsErr(response[r]) => HdFailure(r)
        /\ ~HdDone(r) => response[r] = NoResponse

\* C38: POST lighthouse/validators/hd adds the definitions one at a time in
\* request order; a successful response lists one enabled validator per
\* requested entry in that order and carries the mnemonic only when the
\* request supplied none; a request that fails at its k-th entry answers with
\* an error and leaves the k-1 definitions it added in initialized_validators.
C38_HdAddsOneAtATimeAndKeepsOnFailure == []HdAnswers /\ [][OneAtATime]_vars

\* One request failed at its second entry with its first definition kept,
\* another succeeded with two validators and was handed the mnemonic.
C38_Witness ==
    \E r \in Requests, q \in Requests :
        /\ r # q
        /\ HdDone(r) /\ IsErr(response[r])
        /\ Len(body[r].validators) = 2 /\ Len(validators[r]) = 1
        /\ IsSubsequence(HdKeys(validators[r]), DefinitionKeys)
        /\ HdDone(q) /\ IsOk(response[q])
        /\ Len(response[q][2].validators) = 2
        /\ response[q][2].mnemonic # None

====
